---- MODULE Spec2Model ----
(***************************************************************************)
(* SWF container parser of Smol_project-Owo: the tag scanner               *)
(* (source/swf_tags.c) and the header reader (source/swf_parse.c).         *)
(*                                                                         *)
(* Bytes are integers 0..255.  A buffer is a sequence of bytes; the C      *)
(* index i is the TLA+ index i + 1.  The target (3DS, ARM11) has 32-bit    *)
(* size_t and uint32_t: such values are records [hi, lo] of two 16-bit     *)
(* halves, and their arithmetic is carried out modulo 2^32.                *)
(***************************************************************************)
EXTENDS Integers, Sequences, FiniteSets, TLC

VARIABLES
    file,         \* the file at path: what fopen, fread and inflate will deliver
    entry,        \* the entry point running: "scan_tags" or "read_header"
    rc,           \* the entry point's return value, "none" until it returns
    fd,           \* FILE* f: open or not, read position, fclose calls so far
    mem,          \* the malloc'ed block: state and free calls so far
    zs,           \* z_stream zs and the last return value of inflate
    lv,           \* locals: sig, ver, file_len, and r of swf_read_header;
                  \* br.bitpos, and the last bit reader call: op, its n,
                  \* the uint32_t v and the int32_t sv it returned;
                  \* void* ctx of main (the n-th context created, 0 before)
    uc,           \* uc[0..uc_len) of swf_read_header
    hdr,          \* SwfHeader *out
    swf_len,      \* size of the block swf points to (len in swf_scan_tags)
    buf,          \* the bytes of swf written so far, in order from swf[0]
    stack,        \* activation records of scan_stream, innermost last
    out,          \* SwfTagSummary *out
    print_limit,  \* print_first_n
    printed,      \* int printed (shared through int* printed)
    trace,        \* the lines written to stdout by scan_stream; in main, the
                  \* calls made on player contexts
    rd,           \* in-range buffer indexes read by the last step
    oob,          \* TRUE once a byte outside buf has been read
    phase         \* position in the entry point; "done" after its return

scanVars == <<buf, stack, out, print_limit, printed, trace, rd, oob>>

loadVars == <<file, entry, fd, zs, lv, uc, hdr, swf_len>>

vars == <<file, entry, rc, fd, mem, zs, lv, uc, hdr, swf_len,
          buf, stack, out, print_limit, printed, trace, rd, oob, phase>>

\* words of a generated tag stream
MaxWords == 4

\* records inside a generated sprite
MaxInner == 2

\* records one scan may count before the model stops following it
MaxTags == 8

\* bytes a header declares beyond what the file holds
MoreDeclared == 5

(***************************************************************************)
(* 32-bit unsigned arithmetic.                                             *)
(***************************************************************************)
W16 == 65536

U32(h, l) == [hi |-> h, lo |-> l]

\* a natural number below 2^31 as a 32-bit value
ToU32(n) == U32(n \div W16, n % W16)

\* a + b modulo 2^32
U32Add(a, b) ==
    LET s == a.lo + b.lo
    IN  U32((a.hi + b.hi + (s \div W16)) % W16, s % W16)

\* a - b modulo 2^32
U32Sub(a, b) ==
    LET borrow == IF a.lo < b.lo THEN 1 ELSE 0
    IN  U32((a.hi - b.hi - borrow + 2 * W16) % W16, (a.lo - b.lo + W16) % W16)

\* a 32-bit value below 2^31 as a number
U32Val(u) == u.hi * W16 + u.lo

\* (int32_t)u
ToInt32(u) == IF u.hi >= 32768 THEN (u.hi - W16) * W16 + u.lo ELSE U32Val(u)

ShiftIn_NoCarry(v, bit) == U32((2 * v.hi) % W16, (2 * v.lo + bit) % W16)

\* v = (v << 1) | bit, on a uint32_t v
ShiftIn(v, bit) == U32((2 * v.hi + (v.lo \div 32768)) % W16, (2 * v.lo + bit) % W16)

U32Le(a, b) == a.hi < b.hi \/ (a.hi = b.hi /\ a.lo <= b.lo)

U32Gt(a, b) == ~U32Le(a, b)

\* the mathematical sum a + b exceeds c (no wrap-around)
SumExceeds(a, b, c) ==
    LET s == a.lo + b.lo
        h == a.hi + b.hi + (s \div W16)
    IN  h >= W16 \/ U32Gt(U32(h, s % W16), c)

(***************************************************************************)
(* Little-endian field readers.                                            *)
(***************************************************************************)
u16le(b0, b1) == b0 + 256 * b1

u32le(b0, b1, b2, b3) == U32(b2 + 256 * b3, b0 + 256 * b1)

(***************************************************************************)
(* Memory reads through a pointer data = swf + base at the 32-bit offset   *)
(* p + d.  A read outside the block is undefined behaviour: it yields an   *)
(* arbitrary byte g (or faults, see scan_stream_fault); so does the read   *)
(* of a byte of the block that was never written.                          *)
(***************************************************************************)
InBuf(base, p, d) == p.hi = 0 /\ base + p.lo + d < swf_len

Written(base, p, d) == p.hi = 0 /\ base + p.lo + d < Len(buf)

DataByte(base, p, d, g) ==
    IF Written(base, p, d) THEN buf[base + p.lo + d + 1] ELSE g

ReadSet(base, p, ds) == { base + p.lo + d : d \in { x \in ds : InBuf(base, p, x) } }

ReadsOutside(base, p, ds) == \E d \in ds : ~InBuf(base, p, d)

\* the bytes an out-of-range read may deliver
OobBytes == {0, 255}

(***************************************************************************)
(* SwfTagSummary (include/swf_tags.h) as memset leaves it in swf_scan_tags. *)
(***************************************************************************)
ZeroSummary ==
    [ total_tags |-> 0, showframe_tags |-> 0, sprite_count |-> 0,
      sprite_tags |-> 0, sprite_showframe_tags |-> 0,
      has_file_attributes |-> FALSE, use_as3 |-> FALSE,
      use_network |-> FALSE, has_metadata |-> FALSE ]

(***************************************************************************)
(* scan_stream, one loop iteration per step.                               *)
(***************************************************************************)
\* RECORDHEADER: upper 10 bits = tag type
TagCode(tcl) == tcl \div 64

\* a length mask one bit too wide (0x7F for 0x3F)
TagLen_Mask7(tcl) == tcl % 128

\* RECORDHEADER: lower 6 bits = length
TagLen(tcl) == tcl % 64

\* while (pos + 2 <= len)
LoopCond(f) == U32Le(U32Add(f.pos, ToU32(2)), f.len)

\* if (pos + size > len) break;   -- size_t arithmetic, modulo 2^32
PayloadFits(pos, size, len) == U32Le(U32Add(pos, size), len)

\* Lines 154-164 for the activation f: the header at f.pos, the extended
\* length when the 6-bit length is 0x3F, and the two truncation checks.
RecordHeader(f, g) ==
    LET tcl   == u16le(DataByte(f.base, f.pos, 0, g), DataByte(f.base, f.pos, 1, g))
        p1    == U32Add(f.pos, ToU32(2))
        long  == TagLen(tcl) = 63
        extOk == U32Le(U32Add(p1, ToU32(4)), f.len)
        size  == IF long
                 THEN u32le(DataByte(f.base, p1, 0, g), DataByte(f.base, p1, 1, g),
                            DataByte(f.base, p1, 2, g), DataByte(f.base, p1, 3, g))
                 ELSE ToU32(TagLen(tcl))
        p2    == IF long THEN U32Add(p1, ToU32(4)) ELSE p1
        ext   == long /\ extOk
    IN  [ code |-> TagCode(tcl),
          size |-> size,
          pos  |-> p2,
          long |-> long,
          fits |-> (~long \/ extOk) /\ PayloadFits(p2, size, f.len),
          rd   |-> ReadSet(f.base, f.pos, {0, 1})
                   \cup (IF ext THEN ReadSet(f.base, p1, {0, 1, 2, 3}) ELSE {}),
          oob  |-> ReadsOutside(f.base, f.pos, {0, 1})
                   \/ (ext /\ ReadsOutside(f.base, p1, {0, 1, 2, 3})) ]

\* the frame-advance counter of the root level bumped at both levels
CountTag_RootShowFrame(o, in_sprite, code) ==
    IF in_sprite
    THEN [o EXCEPT !.sprite_tags = @ + 1,
                   !.showframe_tags = IF code = 1 THEN @ + 1 ELSE @]
    ELSE [o EXCEPT !.total_tags = @ + 1,
                   !.showframe_tags = IF code = 1 THEN @ + 1 ELSE @]

\* Lines 166-174: the per-level counters.
CountTag(o, in_sprite, code) ==
    IF in_sprite
    THEN [o EXCEPT !.sprite_tags = @ + 1,
                   !.sprite_showframe_tags = IF code = 1 THEN @ + 1 ELSE @]
    ELSE [o EXCEPT !.total_tags = @ + 1,
                   !.showframe_tags = IF code = 1 THEN @ + 1 ELSE @]

\* if (!in_sprite && code == 69 && size >= 4)
IsFileAttributes(in_sprite, code, size) ==
    ~in_sprite /\ code = 69 /\ U32Le(ToU32(4), size)

\* ActionScript3 taken from bit 2 (mask 1u << 2)
FileAttributes_Bit2(o, flags) ==
    [o EXCEPT !.has_file_attributes = TRUE,
              !.use_network  = (flags.lo % 2) = 1,
              !.use_as3      = ((flags.lo \div 4) % 2) = 1,
              !.has_metadata = ((flags.lo \div 16) % 2) = 1]

\* Lines 180-184: flags is the little-endian word, as a U32.
FileAttributes(o, flags) ==
    [o EXCEPT !.has_file_attributes = TRUE,
              !.use_network  = (flags.lo % 2) = 1,
              !.use_as3      = ((flags.lo \div 8) % 2) = 1,
              !.has_metadata = ((flags.lo \div 16) % 2) = 1]

\* if (!in_sprite && code == 39 && size >= 4)
IsDefineSprite(in_sprite, code, size) ==
    ~in_sprite /\ code = 39 /\ U32Le(ToU32(4), size)

\* the nested scan given the whole payload length (size for size - 4)
SpriteFrame_WholeSize(f, h) ==
    [ base |-> f.base + h.pos.lo + 4,
      len  |-> h.size,
      pos  |-> ToU32(0),
      in_sprite |-> TRUE,
      indent |-> f.indent + 2,
      local_idx |-> 0,
      pc   |-> "loop",
      code |-> 0,
      size |-> ToU32(0) ]

\* Lines 216-218: the activation of the nested scan_stream call.
SpriteFrame(f, h) ==
    [ base |-> f.base + h.pos.lo + 4,
      len  |-> U32Sub(h.size, ToU32(4)),
      pos  |-> ToU32(0),
      in_sprite |-> TRUE,
      indent |-> f.indent + 2,
      local_idx |-> 0,
      pc   |-> "loop",
      code |-> 0,
      size |-> ToU32(0) ]

\* the End test left out
EndsStream_Never(code) == FALSE

\* if (code == 0) break;
EndsStream(code) == code = 0

\* Lines 221-224: pos += size, then the End test.
Advance(f, pos, code, size) ==
    [f EXCEPT !.pos  = U32Add(pos, size),
              !.code = code,
              !.size = size,
              !.pc   = IF EndsStream(code) THEN "ret" ELSE "loop"]

Top == stack[Len(stack)]

Pop == SubSeq(stack, 1, Len(stack) - 1)

ReplaceTop(f) == [stack EXCEPT ![Len(stack)] = f]

\* Lines 188-199: the tag line, while the global budget lasts.
TagLine(f, o, h) ==
    [ kind   |-> IF f.in_sprite THEN "stag" ELSE "tag",
      indent |-> f.indent,
      a      |-> IF f.in_sprite THEN f.local_idx + 1 ELSE o.total_tags,
      b      |-> h.code,
      len    |-> h.size ]

\* Lines 210-213: the extra line of a DefineSprite; it does not count.
DetailLine(f, id, frames) ==
    [ kind |-> "detail", indent |-> f.indent + 2, a |-> id, b |-> frames,
      len |-> ToU32(0) ]

PrintsLine_OffByOne(n, limit) == n <= limit

\* if (*printed < print_limit)
PrintsLine(n, limit) == n < limit

\* One iteration that reaches line 166: the record passed both checks.
scan_stream_tag ==
    /\ phase = "scan"
    /\ stack # <<>>
    /\ Top.pc = "loop"
    /\ LoopCond(Top)
    /\ out.total_tags + out.sprite_tags < MaxTags
    /\ \E g \in OobBytes :
        LET f      == Top
            h      == RecordHeader(f, g)
            o1     == CountTag(out, f.in_sprite, h.code)
            isFA   == IsFileAttributes(f.in_sprite, h.code, h.size)
            flags  == u32le(DataByte(f.base, h.pos, 0, g), DataByte(f.base, h.pos, 1, g),
                            DataByte(f.base, h.pos, 2, g), DataByte(f.base, h.pos, 3, g))
            o2     == IF isFA THEN FileAttributes(o1, flags) ELSE o1
            isSpr  == IsDefineSprite(f.in_sprite, h.code, h.size)
            id     == u16le(DataByte(f.base, h.pos, 0, g), DataByte(f.base, h.pos, 1, g))
            frames == u16le(DataByte(f.base, h.pos, 2, g), DataByte(f.base, h.pos, 3, g))
            o3     == IF isSpr THEN [o2 EXCEPT !.sprite_count = @ + 1] ELSE o2
            line   == PrintsLine(printed, print_limit)
            p1     == IF line THEN printed + 1 ELSE printed
            t1     == IF line THEN Append(trace, TagLine(f, o1, h)) ELSE trace
            t2     == IF isSpr /\ PrintsLine(p1, print_limit)
                      THEN Append(t1, DetailLine(f, id, frames)) ELSE t1
            body   == isFA \/ isSpr
            f1     == [f EXCEPT !.local_idx = @ + 1]
        IN  /\ h.fits
            /\ out' = o3
            /\ printed' = p1
            /\ trace' = t2
            /\ rd' = h.rd \cup (IF body THEN ReadSet(f.base, h.pos, {0, 1, 2, 3}) ELSE {})
            /\ oob' = (oob \/ h.oob \/ (body /\ ReadsOutside(f.base, h.pos, {0, 1, 2, 3})))
            /\ stack' = IF isSpr
                        THEN Append(ReplaceTop([f1 EXCEPT !.pos = h.pos, !.code = h.code,
                                                          !.size = h.size, !.pc = "call"]),
                                    SpriteFrame(f, h))
                        ELSE ReplaceTop(Advance(f1, h.pos, h.code, h.size))
    /\ UNCHANGED <<buf, print_limit, phase, rc, mem>>
    /\ UNCHANGED loadVars

\* One iteration that leaves the loop at line 161 or 164: a record whose
\* extended length field or payload does not fit.
scan_stream_break ==
    /\ phase = "scan"
    /\ stack # <<>>
    /\ Top.pc = "loop"
    /\ LoopCond(Top)
    /\ \E g \in OobBytes :
        LET h == RecordHeader(Top, g)
        IN  /\ ~h.fits
            /\ rd' = h.rd
            /\ oob' = (oob \/ h.oob)
    /\ stack' = ReplaceTop([Top EXCEPT !.pc = "ret"])
    /\ UNCHANGED <<buf, out, print_limit, printed, trace, phase, rc, mem>>
    /\ UNCHANGED loadVars

\* The loop condition pos + 2 <= len fails.
scan_stream_exit ==
    /\ phase = "scan"
    /\ stack # <<>>
    /\ Top.pc = "loop"
    /\ ~LoopCond(Top)
    /\ stack' = ReplaceTop([Top EXCEPT !.pc = "ret"])
    /\ rd' = {}
    /\ UNCHANGED <<buf, out, print_limit, printed, trace, oob, phase, rc, mem>>
    /\ UNCHANGED loadVars

\* return 0: the caller resumes at line 221 (a nested scan) or at line 250
\* of swf_scan_tags (the root scan).
scan_stream_return ==
    /\ phase = "scan"
    /\ stack # <<>>
    /\ Top.pc = "ret"
    /\ IF Len(stack) > 1
       THEN LET c == stack[Len(stack) - 1]
            IN  /\ stack' = [Pop EXCEPT ![Len(stack) - 1] = Advance(c, c.pos, c.code, c.size)]
                /\ phase' = phase
       ELSE /\ stack' = <<>>
            /\ phase' = "scanned"
    /\ rd' = {}
    /\ UNCHANGED <<buf, out, print_limit, printed, trace, oob, rc, mem>>
    /\ UNCHANGED loadVars

\* An iteration whose reads leave the buffer may also end in a data abort.
scan_stream_fault ==
    /\ phase = "scan"
    /\ stack # <<>>
    /\ Top.pc = "loop"
    /\ LoopCond(Top)
    /\ \E g \in OobBytes :
        LET f == Top
            h == RecordHeader(f, g)
        IN  \/ h.oob
            \/ /\ h.fits
               /\ IsFileAttributes(f.in_sprite, h.code, h.size)
                     \/ IsDefineSprite(f.in_sprite, h.code, h.size)
               /\ ReadsOutside(f.base, h.pos, {0, 1, 2, 3})
    /\ phase' = "fault"
    /\ oob' = TRUE
    /\ rd' = {}
    /\ UNCHANGED <<buf, stack, out, print_limit, printed, trace, rc, mem>>
    /\ UNCHANGED loadVars

\* swf_scan_tags, lines 250-251: free(swf); return 0;
swf_scan_tags_return ==
    /\ phase = "scanned"
    /\ mem' = [mem EXCEPT !.state = "freed", !.frees = @ + 1]
    /\ rc' = 0
    /\ phase' = "done"
    /\ UNCHANGED scanVars
    /\ UNCHANGED loadVars

(***************************************************************************)
(* Tag streams handed to the root scan.                                    *)
(***************************************************************************)
Word(w) == <<w % 256, w \div 256>>

\* a short record header: code in the upper 10 bits, length in the lower 6
Hdr(code, len6) == Word(code * 64 + len6)

RECURSIVE Flatten(_)
Flatten(ws) == IF ws = <<>> THEN <<>> ELSE Head(ws) \o Flatten(Tail(ws))

Fill(n, b) == [i \in 1..n |-> b]

\* 16-bit words a generated stream is made of: headers of End, ShowFrame,
\* DefineSprite and FileAttributes records, long-length headers, and halves
\* of extended lengths and flag words
Vocab ==
    { Hdr(0, 0), Hdr(1, 0), Hdr(1, 63), Hdr(69, 4), Hdr(39, 63),
      Word(65530), Word(65535) }

WordStreams ==
    { Flatten(ws) : ws \in UNION { [1..n -> Vocab] : n \in 0..MaxWords } }

\* every generated stream, whole and with its last byte cut off
CutStreams ==
    WordStreams \cup { SubSeq(b, 1, Len(b) - 1) : b \in WordStreams \ {<<>>} }

\* DefineSprite(id = 1, frames = 1) whose header declares sz payload bytes
Sprite(sz, inner) == Hdr(39, sz) \o Word(1) \o Word(1) \o inner

InnerWords == { Hdr(0, 0), Hdr(1, 0), Hdr(1, 2), Hdr(1, 63), Hdr(39, 4), Hdr(69, 4) }

InnerStreams ==
    { Flatten(ws) : ws \in UNION { [1..n -> InnerWords] : n \in 0..MaxInner } }

\* sprites whose declared payload ends before, at or after the inner
\* records, followed by nothing, a ShowFrame or an End at root level
SpriteStreams ==
    { Sprite(sz, inner) \o tail :
        sz \in 3..(4 + 2 * MaxInner), inner \in InnerStreams,
        tail \in {<<>>, Hdr(1, 0), Hdr(0, 0), Hdr(69, 4) \o Word(9) \o Word(0)} }

\* spec section 8: DefineSprite(id 1, frames 1, [ShowFrame, End]), ShowFrame, End
CraftedStream == Sprite(8, Hdr(1, 0) \o Hdr(0, 0)) \o Hdr(1, 0) \o Hdr(0, 0)

\* spec section 8: length field 63, extended length 0x00000100, 256 payload
\* bytes, then the next record
ExtendedStream == Hdr(2, 63) \o Word(256) \o Word(0) \o Fill(256, 170) \o Hdr(1, 0)

\* spec section 8: FileAttributes with flag word 0x00000009
FlagsStream == Hdr(69, 4) \o Word(9) \o Word(0) \o Hdr(0, 0)

\* FileAttributes records over the flag bits 0, 3 and 4, with 2 or 4 payload
\* bytes, a second one overriding the first
FlagStreams ==
    { Hdr(69, sz) \o Word(f1) \o Word(0) \o Hdr(69, 4) \o Word(f2) \o Word(0) :
        sz \in {2, 4}, f1 \in {0, 1, 8, 16, 25}, f2 \in {0, 9, 16} }

\* long-length records whose extended length is within 6 of 2^32
WrapStreams ==
    { Hdr(c, 63) \o Word(65536 - k) \o Word(65535) \o tail :
        c \in {0, 1, 39, 69}, k \in 1..6, tail \in {<<>>, Hdr(1, 0), Hdr(0, 0)} }

Streams ==
    CutStreams \cup SpriteStreams \cup FlagStreams \cup WrapStreams
        \cup {CraftedStream, ExtendedStream, FlagsStream}

\* print_first_n values tried (swf_info.c passes 15)
PrintLimits == {0, 1, 15}

\* scan_stream(swf + off, len - off, out, print_first_n, &printed, 0, false)
RootFrame(off, len) ==
    [ base |-> off, len |-> ToU32(len - off), pos |-> ToU32(0),
      in_sprite |-> FALSE, indent |-> 0, local_idx |-> 0, pc |-> "loop",
      code |-> 0, size |-> ToU32(0) ]

NoFile == [exists |-> FALSE, head |-> <<>>, body |-> <<>>, chunks |-> <<>>]

NoStream == [state |-> "none", left |-> 0, fin |-> "none", avail_out |-> 0,
             ret |-> "Z_OK", ends |-> 0]

NoLocals == [sig |-> <<0, 0, 0>>, ver |-> 0, file_len |-> ToU32(0), r |-> 0,
             bitpos |-> 0, op |-> "none", n |-> 0, v |-> ToU32(0), sv |-> 0,
             ctx |-> 0]

ZeroHeader ==
    [ signature |-> <<0, 0, 0>>, version |-> 0, file_length |-> ToU32(0),
      width_px |-> 0, height_px |-> 0, fps |-> [mant |-> 0, exp |-> 0],
      frame_count |-> 0 ]

\* The state of swf_scan_tags at line 247: the load and the start offset
\* succeeded, the root stream swf + off .. swf + len is any of Streams.
InitScan ==
    /\ buf \in Streams
    /\ swf_len = Len(buf)
    /\ file = NoFile
    /\ entry = "scan_tags"
    /\ rc = "none"
    /\ fd = [open |-> FALSE, pos |-> 0, closes |-> 1]
    /\ mem = [state |-> "live", frees |-> 0]
    /\ zs = NoStream
    /\ lv = NoLocals
    /\ uc = <<>>
    /\ hdr = ZeroHeader
    /\ stack = <<RootFrame(0, Len(buf))>>
    /\ out = ZeroSummary
    /\ print_limit \in PrintLimits
    /\ printed = 0
    /\ trace = <<>>
    /\ rd = {}
    /\ oob = FALSE
    /\ phase = "scan"

NextScan ==
    \/ scan_stream_tag
    \/ scan_stream_break
    \/ scan_stream_exit
    \/ scan_stream_return
    \/ scan_stream_fault
    \/ swf_scan_tags_return

SpecScan == InitScan /\ [][NextScan]_vars

(***************************************************************************)
(* Files.  head: the first (at most 8) bytes on disk.  body: for an        *)
(* uncompressed file the bytes after the header; for a zlib-compressed     *)
(* file the bytes its stream decodes to.  chunks: for a compressed file,   *)
(* one entry per non-empty fread of compressed input: n is the number of   *)
(* output bytes that input encodes and fin what the inflater meets at its  *)
(* end ("end": end of stream, "err": corrupt data, "none": more input).    *)
(***************************************************************************)
Min(a, b) == IF a < b THEN a ELSE b

U32Bytes(u) == <<u.lo % 256, u.lo \div 256, u.hi % 256, u.hi \div 256>>

SigFWS == <<70, 87, 83>>

SigCWS == <<67, 87, 83>>

SigZWS == <<90, 87, 83>>

SigOther == <<88, 87, 83>>

FileHead(sig, ver, declared) == sig \o <<ver>> \o U32Bytes(declared)

\* const uint32_t MAX_SWF = 12u * 1024u * 1024u;
MAX_SWF == ToU32(12 * 1024 * 1024)

\* RECT(0, 11000, 0, 8000) with nbits = 15, then FrameRate 0x0C00 and
\* FrameCount 1 (spec section 8)
RectStage == <<120, 0, 5, 95, 0, 0, 15, 160, 0>>

MovieHead == RectStage \o <<0, 12>> \o <<1, 0>>

\* a RECT with nbits = 0 (one byte), then FrameRate and FrameCount
MovieHead0 == <<0>> \o <<0, 12>> \o <<1, 0>>

LoadStreams ==
    { <<>>, CraftedStream, FlagsStream, ExtendedStream,
      Hdr(1, 0) \o Hdr(0, 0) \o Hdr(1, 0),
      Hdr(1, 0) \o Hdr(1, 63) \o Word(4),
      Hdr(39, 63) \o Word(65535) \o Word(65535) }

Bodies ==
    { MovieHead \o t : t \in LoadStreams }
        \cup { <<>>, <<120>>, RectStage, RectStage \o <<0, 12>>, MovieHead0,
               MovieHead0 \o Hdr(1, 0) \o Hdr(0, 0) }

\* declared lengths for a file whose body has n bytes: exact, more than is
\* there, less than is there, and the edges of the window [8, 12 MiB]
Declared(n) ==
    { ToU32(8 + n), ToU32(8 + n + MoreDeclared), ToU32(7 + n),
      ToU32(0), ToU32(7), ToU32(8), ToU32(9),
      U32Sub(MAX_SWF, ToU32(1)), MAX_SWF, U32Add(MAX_SWF, ToU32(1)),
      U32(W16 - 1, W16 - 1) }

Chunk(n, fin) == [n |-> n, fin |-> fin]

\* ways the compressed input of a stream decoding to n bytes arrives and ends
Chunkings(n) ==
    { <<Chunk(n, "end")>>, <<Chunk(n, "none"), Chunk(0, "end")>>,
      <<Chunk(n, "err")>>, <<Chunk(n, "none")>>, <<>> }
        \cup { <<Chunk(k, "none"), Chunk(n - k, "end")>> : k \in {0, 1} \cap 0..n }
        \cup { <<Chunk(k, "err")>> : k \in {0, 1} \cap 0..n }
        \cup { <<Chunk(k, "none")>> : k \in {0, 1, 13} \cap 0..n }

FilesOf(b) ==
    { [exists |-> TRUE, head |-> FileHead(sig, 10, d), body |-> b, chunks |-> <<>>] :
         sig \in {SigFWS, SigZWS, SigOther}, d \in Declared(Len(b)) }
        \cup { [exists |-> TRUE, head |-> FileHead(SigCWS, 10, d), body |-> b,
                chunks |-> c] :
                 c \in Chunkings(Len(b)), d \in Declared(Len(b)) }

Files ==
    { NoFile,
      [exists |-> TRUE, head |-> <<>>, body |-> <<>>, chunks |-> <<>>],
      [exists |-> TRUE, head |-> SigFWS \o <<10, 21>>, body |-> <<>>, chunks |-> <<>>] }
        \cup UNION { FilesOf(b) : b \in Bodies }

(***************************************************************************)
(* zlib's inflate(&zs, Z_NO_FLUSH) on the pending input: it writes as many *)
(* of the bytes that input encodes as the output has room for, and when    *)
(* the input is used up reports what ends it.                              *)
(***************************************************************************)
Inflate(left, fin, avail_out) ==
    LET k    == Min(left, avail_out)
        rest == left - k
    IN  [ k    |-> k,
          left |-> rest,
          fin  |-> IF rest > 0 THEN fin ELSE "none",
          ret  |-> IF rest > 0 THEN "Z_OK"
                   ELSE IF fin = "err" THEN "Z_DATA_ERROR"
                   ELSE IF fin = "end" THEN "Z_STREAM_END"
                   ELSE "Z_OK" ]

\* zs.avail_in == 0
NoInput == zs.left = 0 /\ zs.fin = "none"

\* fread(inbuf, 1, sizeof(inbuf), f) would return 0
AtEof == fd.pos >= Len(file.chunks)

\* the pending input of the next inflate call, after the fread of lines 91-96
Pending ==
    IF NoInput
    THEN [left |-> file.chunks[fd.pos + 1].n, fin |-> file.chunks[fd.pos + 1].fin,
          pos |-> fd.pos + 1]
    ELSE [left |-> zs.left, fin |-> zs.fin, pos |-> fd.pos]

Closed == [fd EXCEPT !.open = FALSE, !.closes = @ + 1]

Freed_Leak == mem

\* free(buf)
Freed == [mem EXCEPT !.state = "freed", !.frees = @ + 1]

Ended == [zs EXCEPT !.state = "ended", !.ends = @ + 1]

(***************************************************************************)
(* swf_scan_tags and swf_load_uncompressed.                                *)
(***************************************************************************)
OutsideWindow_Exclusive(file_len) ==
    U32Le(file_len, ToU32(8)) \/ U32Gt(file_len, MAX_SWF)

\* if (file_len < 8 || file_len > MAX_SWF)
OutsideWindow(file_len) == ~U32Le(ToU32(8), file_len) \/ U32Gt(file_len, MAX_SWF)

\* swf_scan_tags, lines 237-241: the load failed with code
FailLines(code, sig) ==
    <<[kind |-> "fail", indent |-> 0, a |-> code, b |-> 0, len |-> ToU32(0)]>>
        \o (IF sig = SigZWS
            THEN <<[kind |-> "zws", indent |-> 0, a |-> 0, b |-> 0, len |-> ToU32(0)]>>
            ELSE <<>>)

LoadFails(code, sig) ==
    /\ rc' = code
    /\ phase' = "done"
    /\ trace' = trace \o FailLines(code, sig)

CanonicalHeader_NoVersion(ver, file_len) == SigFWS \o <<0>> \o U32Bytes(file_len)

\* Lines 69-74: buf[0..7]
CanonicalHeader(ver, file_len) == SigFWS \o <<ver>> \o U32Bytes(file_len)

\* Lines 231 and 48-74: memset, fopen, the 8 header bytes, the window check,
\* malloc and the canonical header.
swf_load_header ==
    /\ entry = "scan_tags"
    /\ phase = "start"
    /\ out' = ZeroSummary
    /\ \E malloc_ok \in BOOLEAN :
        LET h8       == file.head
            sig      == SubSeq(h8, 1, 3)
            file_len == u32le(h8[5], h8[6], h8[7], h8[8])
        IN  IF ~file.exists
            THEN /\ LoadFails(-1, <<0, 0, 0>>)
                 /\ UNCHANGED <<fd, mem, lv, buf, swf_len>>
            ELSE IF Len(h8) < 8
            THEN /\ LoadFails(-2, <<0, 0, 0>>)
                 /\ fd' = [open |-> FALSE, pos |-> 0, closes |-> fd.closes + 1]
                 /\ UNCHANGED <<mem, lv, buf, swf_len>>
            ELSE IF OutsideWindow(file_len)
            THEN /\ LoadFails(-3, sig)
                 /\ fd' = [open |-> FALSE, pos |-> 0, closes |-> fd.closes + 1]
                 /\ lv' = [lv EXCEPT !.sig = sig, !.ver = h8[4], !.file_len = file_len]
                 /\ UNCHANGED <<mem, buf, swf_len>>
            ELSE IF ~malloc_ok
            THEN /\ LoadFails(-4, sig)
                 /\ fd' = [open |-> FALSE, pos |-> 0, closes |-> fd.closes + 1]
                 /\ lv' = [lv EXCEPT !.sig = sig, !.ver = h8[4], !.file_len = file_len]
                 /\ UNCHANGED <<mem, buf, swf_len>>
            ELSE /\ fd' = [open |-> TRUE, pos |-> 0, closes |-> fd.closes]
                 /\ lv' = [lv EXCEPT !.sig = sig, !.ver = h8[4], !.file_len = file_len]
                 /\ mem' = [state |-> "live", frees |-> 0]
                 /\ swf_len' = file_len.hi * W16 + file_len.lo
                 /\ buf' = CanonicalHeader(h8[4], file_len)
                 /\ phase' = "body"
                 /\ UNCHANGED <<rc, trace>>
    /\ UNCHANGED <<file, entry, zs, uc, hdr, stack, print_limit, printed, rd, oob>>

ShortRead_Accepted(got, want) == FALSE

\* if (got != file_len - 8)
ShortRead(got, want) == got # want

\* Lines 76-79 and 113-115: the uncompressed body.
swf_load_fws ==
    /\ entry = "scan_tags"
    /\ phase = "body"
    /\ lv.sig = SigFWS
    /\ LET got == Min(swf_len - 8, Len(file.body))
       IN  /\ buf' = buf \o SubSeq(file.body, 1, got)
           /\ fd' = [Closed EXCEPT !.pos = got]
           /\ IF ShortRead(got, swf_len - 8)
              THEN /\ mem' = Freed
                   /\ LoadFails(-5, lv.sig)
              ELSE /\ phase' = "offset"
                   /\ UNCHANGED <<mem, rc, trace>>
    /\ UNCHANGED <<file, entry, zs, lv, uc, hdr, swf_len, stack, out, print_limit,
                   printed, rd, oob>>

\* Lines 81-89: inflateInit and the output window.
swf_load_inflate_init ==
    /\ entry = "scan_tags"
    /\ phase = "body"
    /\ lv.sig = SigCWS
    /\ \E init_ok \in BOOLEAN :
        IF init_ok
        THEN /\ zs' = [state |-> "live", left |-> 0, fin |-> "none",
                       avail_out |-> swf_len - 8, ret |-> "Z_OK", ends |-> zs.ends]
             /\ phase' = "inflate"
             /\ UNCHANGED <<fd, mem, rc, trace>>
        ELSE /\ fd' = Closed
             /\ mem' = Freed
             /\ LoadFails(-6, lv.sig)
             /\ UNCHANGED zs
    /\ UNCHANGED <<file, entry, lv, uc, hdr, swf_len, buf, stack, out, print_limit,
                   printed, rd, oob>>

\* while (ret != Z_STREAM_END && zs.avail_out > 0), and no break at line 93
LoadLoopRuns ==
    zs.ret # "Z_STREAM_END" /\ zs.avail_out > 0 /\ ~(NoInput /\ AtEof)

\* Lines 90-100: one iteration of the inflate loop.
swf_load_inflate ==
    /\ entry = "scan_tags"
    /\ phase = "inflate"
    /\ LoadLoopRuns
    /\ LET in  == Pending
           r   == Inflate(in.left, in.fin, zs.avail_out)
           n   == Len(buf) - 8
           z1  == [zs EXCEPT !.left = r.left, !.fin = r.fin,
                             !.avail_out = @ - r.k, !.ret = r.ret]
       IN  /\ buf' = buf \o SubSeq(file.body, n + 1, n + r.k)
           /\ IF r.ret \notin {"Z_OK", "Z_STREAM_END"}
              THEN /\ zs' = [z1 EXCEPT !.state = "ended", !.ends = @ + 1]
                   /\ fd' = [Closed EXCEPT !.pos = in.pos]
                   /\ mem' = Freed
                   /\ LoadFails(-7, lv.sig)
              ELSE /\ zs' = z1
                   /\ fd' = [fd EXCEPT !.pos = in.pos]
                   /\ UNCHANGED <<mem, rc, trace, phase>>
    /\ UNCHANGED <<file, entry, lv, uc, hdr, swf_len, stack, out, print_limit,
                   printed, rd, oob>>

\* Lines 103-105 and 113-115: the loop is left.
swf_load_inflate_done ==
    /\ entry = "scan_tags"
    /\ phase = "inflate"
    /\ ~LoadLoopRuns
    /\ zs' = Ended
    /\ fd' = Closed
    /\ IF zs.ret # "Z_STREAM_END"
       THEN /\ mem' = Freed
            /\ LoadFails(-8, lv.sig)
       ELSE /\ phase' = "offset"
            /\ UNCHANGED <<mem, rc, trace>>
    /\ UNCHANGED <<file, entry, lv, uc, hdr, swf_len, buf, stack, out, print_limit,
                   printed, rd, oob>>

\* Lines 106-111: any other signature.
swf_load_unsupported ==
    /\ entry = "scan_tags"
    /\ phase = "body"
    /\ lv.sig \notin {SigFWS, SigCWS}
    /\ fd' = Closed
    /\ mem' = Freed
    /\ LoadFails(-9, lv.sig)
    /\ UNCHANGED <<file, entry, zs, lv, uc, hdr, swf_len, buf, stack, out,
                   print_limit, printed, rd, oob>>

(***************************************************************************)
(* The bit reader (BR / BitReader) over n bytes b; a byte at or past n     *)
(* reads as 0, a byte below n that was never written as g.  v is the       *)
(* uint32_t accumulator; the test of nv, always true, has each turn of the *)
(* loop compute v before the next one starts.                              *)
(***************************************************************************)
RECURSIVE br_bits(_, _, _, _, _, _)
br_bits(b, n, bit, k, v, g) ==
    IF k = 0 THEN v
    ELSE LET by == bit \div 8
             bi == 7 - (bit % 8)
             x  == IF by < n THEN (IF by < Len(b) THEN b[by + 1] ELSE g) ELSE 0
             nv == ShiftIn(v, (x \div (2 ^ bi)) % 2)
         IN  IF nv.lo >= 0 THEN br_bits(b, n, bit + 1, k - 1, nv, g) ELSE nv

\* br_align / br_byte_align
br_align(bit) == IF bit % 8 # 0 THEN bit + (8 - (bit % 8)) ELSE bit

TagStart_NoFrameFields(rect_bytes) == 8 + rect_bytes

\* size_t off = 8 + rect_bytes + 4;
TagStart(rect_bytes) == 8 + rect_bytes + 4

\* swf_tag_start_offset: the offset, or its negative return value
swf_tag_start_offset(swf, len, g) ==
    IF len < 8 + 1 THEN -1
    ELSE LET body  == SubSeq(swf, 9, Len(swf))
             nbits == U32Val(br_bits(body, len - 8, 0, 5, ToU32(0), g))
             rect_bytes == br_align(5 + 4 * nbits) \div 8
             off   == TagStart(rect_bytes)
         IN  IF off > len THEN -2 ELSE off

\* swf_scan_tags, lines 243-248: the start offset, then the root scan.
swf_scan_tags_offset ==
    /\ entry = "scan_tags"
    /\ phase = "offset"
    /\ \E g \in OobBytes :
        LET off == swf_tag_start_offset(buf, swf_len, g)
        IN  IF off < 0
            THEN /\ mem' = Freed
                 /\ rc' = -20
                 /\ phase' = "done"
                 /\ UNCHANGED <<stack, printed>>
            ELSE /\ stack' = <<RootFrame(off, swf_len)>>
                 /\ printed' = 0
                 /\ phase' = "scan"
                 /\ UNCHANGED <<mem, rc>>
    /\ rd' = {}
    /\ UNCHANGED <<file, entry, fd, zs, lv, uc, hdr, swf_len, buf, out, print_limit,
                   trace, oob>>

(***************************************************************************)
(* swf_read_header and read_uncompressed_prefix.                           *)
(***************************************************************************)
\* uint8_t uc[256]
OUT_CAP == 256

read_u32_le(b0, b1, b2, b3) == U32(b2 + 256 * b3, b0 + 256 * b1)

read_u16_le_BigEndian(b0, b1) == 256 * b0 + b1

read_u16_le(b0, b1) == b0 + 256 * b1

\* (float)fr / 256.0f: a 16-bit fr fits the 24-bit significand of a float
\* and the division by a power of two only lowers the exponent, so the
\* result is the float mant * 2^exp exactly
FloatDiv256(fr) == [mant |-> fr, exp |-> -8]

BitInRange_Always(byte_i, len) == TRUE

\* (byte_i < br->len)
BitInRange(byte_i, len) == byte_i < len

\* br_read_bits: the k bits at bitpos of the buffer b of len bytes, of which
\* Len(b) are written; a byte at or past len reads as 0, an unwritten byte
\* as g.  v is the uint32_t accumulator; the test of nv, always true, has
\* each turn of the loop compute v before the next one starts.
RECURSIVE br_read_bits(_, _, _, _, _, _)
br_read_bits(b, len, bitpos, k, v, g) ==
    IF k = 0 THEN v
    ELSE LET byte_i == bitpos \div 8
             bit_i  == 7 - (bitpos % 8)
             x      == IF BitInRange(byte_i, len)
                       THEN (IF byte_i < Len(b) THEN b[byte_i + 1] ELSE g)
                       ELSE 0
             nv     == ShiftIn(v, (x \div (2 ^ bit_i)) % 2)
         IN  IF nv.lo >= 0 THEN br_read_bits(b, len, bitpos + 1, k - 1, nv, g) ELSE nv

\* the byte indexes br_read_bits reads for the k bits at bitpos
BitReads(len, bitpos, k) ==
    { byte_i \in { (bitpos + i) \div 8 : i \in 0..(k - 1) } : BitInRange(byte_i, len) }

\* what 1u << 32 may yield: a shift by the width of the type is undefined;
\* a register shift gives 0, a shift count taken modulo 32 gives 1
ShiftByWidth == {ToU32(0), ToU32(1)}

\* 1u << n; s is the outcome of the undefined shift by 32
Shl1(n, s) == IF n >= 32 THEN s
              ELSE IF n >= 16 THEN U32(2 ^ (n - 16), 0) ELSE U32(0, 2 ^ n)

\* (u & (1u << k)) != 0, for k in 0..31
TestBit(u, k) == IF k >= 16 THEN (u.hi \div (2 ^ (k - 16))) % 2 = 1
                 ELSE (u.lo \div (2 ^ k)) % 2 = 1

\* ~m, for m = 2^j - 1 (j in 0..16) or m = 0xFFFF
Not16(m) == (W16 - 1) - m

\* a | b on 16-bit values, for b = ~(2^j - 1)
Or16(a, b) == b + (a % (W16 - b))

\* u |= ~((1u << n) - 1);
SignExtend(u, n, s) ==
    LET m == U32Sub(Shl1(n, s), ToU32(1))
    IN  U32(Or16(u.hi, Not16(m.hi)), Or16(u.lo, Not16(m.lo)))

\* br_read_sbits: the n-bit field u, sign-extended from bit n-1, as int32_t
br_read_sbits(u, n, s) ==
    IF n > 0 /\ TestBit(u, n - 1)
    THEN ToInt32(SignExtend(u, n, s))
    ELSE ToInt32(u)

CDiv_Floor(a, b) == a \div b

\* C integer division, truncated toward zero
CDiv(a, b) == IF a >= 0 THEN a \div b ELSE -((-a) \div b)

ClearedHeader_Kept(h) == h

\* memset(out, 0, sizeof) of the SwfHeader
ClearedHeader(h) == ZeroHeader

\* Lines 92-105: memset, fopen, the 8 header bytes.
swf_read_header_open ==
    /\ entry = "read_header"
    /\ phase = "start"
    /\ LET h8 == file.head
       IN  IF ~file.exists
           THEN /\ hdr' = ClearedHeader(hdr)
                /\ rc' = -1
                /\ phase' = "done"
                /\ UNCHANGED <<fd, lv>>
           ELSE IF Len(h8) < 8
           THEN /\ hdr' = ClearedHeader(hdr)
                /\ rc' = -2
                /\ phase' = "done"
                /\ fd' = [open |-> FALSE, pos |-> 0, closes |-> fd.closes + 1]
                /\ UNCHANGED lv
           ELSE /\ hdr' = [ClearedHeader(hdr) EXCEPT
                             !.signature = SubSeq(h8, 1, 3),
                             !.version = h8[4],
                             !.file_length = read_u32_le(h8[5], h8[6], h8[7], h8[8])]
                /\ lv' = [lv EXCEPT !.sig = SubSeq(h8, 1, 3), !.ver = h8[4],
                                    !.file_len = read_u32_le(h8[5], h8[6], h8[7], h8[8])]
                /\ fd' = [open |-> TRUE, pos |-> 0, closes |-> fd.closes]
                /\ phase' = "prefix"
                /\ UNCHANGED rc
    /\ uc' = <<>>
    /\ UNCHANGED <<file, entry, mem, zs, swf_len>>
    /\ UNCHANGED scanVars

\* read_uncompressed_prefix, lines 49-53: the uncompressed variant.
prefix_fws ==
    /\ entry = "read_header"
    /\ phase = "prefix"
    /\ lv.sig = SigFWS
    /\ LET got == Min(OUT_CAP, Len(file.body))
       IN  /\ uc' = SubSeq(file.body, 1, got)
           /\ fd' = [fd EXCEPT !.pos = got]
           /\ lv' = [lv EXCEPT !.r = IF got > 0 THEN 0 ELSE -1]
    /\ phase' = "parse"
    /\ UNCHANGED <<file, entry, rc, mem, zs, hdr, swf_len>>
    /\ UNCHANGED scanVars

\* read_uncompressed_prefix, lines 57-62: inflateInit.
prefix_inflate_init ==
    /\ entry = "read_header"
    /\ phase = "prefix"
    /\ lv.sig = SigCWS
    /\ \E init_ok \in BOOLEAN :
        IF init_ok
        THEN /\ zs' = [state |-> "live", left |-> 0, fin |-> "none",
                       avail_out |-> 0, ret |-> "Z_OK", ends |-> zs.ends]
             /\ phase' = "prefix_inflate"
             /\ UNCHANGED lv
        ELSE /\ lv' = [lv EXCEPT !.r = -2]
             /\ phase' = "parse"
             /\ UNCHANGED zs
    /\ UNCHANGED <<file, entry, rc, fd, mem, uc, hdr, swf_len>>
    /\ UNCHANGED scanVars

\* while (*out_len < out_cap), no break at line 67 and none at line 79
PrefixLoopRuns ==
    Len(uc) < OUT_CAP /\ zs.ret # "Z_STREAM_END" /\ ~(NoInput /\ AtEof)

\* read_uncompressed_prefix, lines 64-81: one iteration of the inflate loop.
prefix_inflate ==
    /\ entry = "read_header"
    /\ phase = "prefix_inflate"
    /\ PrefixLoopRuns
    /\ LET in == Pending
           r  == Inflate(in.left, in.fin, OUT_CAP - Len(uc))
           z1 == [zs EXCEPT !.left = r.left, !.fin = r.fin,
                            !.avail_out = OUT_CAP - Len(uc) - r.k, !.ret = r.ret]
       IN  /\ uc' = uc \o SubSeq(file.body, Len(uc) + 1, Len(uc) + r.k)
           /\ fd' = [fd EXCEPT !.pos = in.pos]
           /\ IF r.ret \notin {"Z_OK", "Z_STREAM_END"}
              THEN /\ zs' = [z1 EXCEPT !.state = "ended", !.ends = @ + 1]
                   /\ lv' = [lv EXCEPT !.r = -3]
                   /\ phase' = "parse"
              ELSE /\ zs' = z1
                   /\ UNCHANGED <<lv, phase>>
    /\ UNCHANGED <<file, entry, rc, mem, hdr, swf_len>>
    /\ UNCHANGED scanVars

PrefixResult_AlwaysOk(out_len) == 0

\* return (*out_len > 0) ? 0 : -4;
PrefixResult(out_len) == IF out_len > 0 THEN 0 ELSE -4

\* read_uncompressed_prefix, lines 83-84: the loop is left.
prefix_inflate_done ==
    /\ entry = "read_header"
    /\ phase = "prefix_inflate"
    /\ ~PrefixLoopRuns
    /\ zs' = Ended
    /\ lv' = [lv EXCEPT !.r = PrefixResult(Len(uc))]
    /\ phase' = "parse"
    /\ UNCHANGED <<file, entry, rc, fd, mem, uc, hdr, swf_len>>
    /\ UNCHANGED scanVars

\* read_uncompressed_prefix, lines 87-88: ZWS and any other signature.
prefix_unsupported ==
    /\ entry = "read_header"
    /\ phase = "prefix"
    /\ lv.sig \notin {SigFWS, SigCWS}
    /\ lv' = [lv EXCEPT !.r = -5]
    /\ phase' = "parse"
    /\ UNCHANGED <<file, entry, rc, fd, mem, zs, uc, hdr, swf_len>>
    /\ UNCHANGED scanVars

\* uc[i], where only the first uc_len bytes of uc were written
UcByte(i, g) == IF i < Len(uc) THEN uc[i + 1] ELSE g

InsufficientPrefix_RateOnly(byte_pos, uc_len) == byte_pos + 2 > uc_len

\* if (byte_pos + 4 > uc_len)
InsufficientPrefix(byte_pos, uc_len) == byte_pos + 4 > uc_len

\* swf_read_header, lines 116-138 on the prefix uc: the header fields or the
\* negative return value, and the indexes of uc that were read.
ParseHeader(h, g) ==
    LET n     == Len(uc)
        nbits == U32Val(br_read_bits(uc, n, 0, 5, ToU32(0), g))
        F(i)  == br_read_sbits(br_read_bits(uc, n, 5 + i * nbits, nbits, ToU32(0), g),
                               nbits, ToU32(0))
        xmin  == F(0)
        xmax  == F(1)
        ymin  == F(2)
        ymax  == F(3)
        byte_pos == br_align(5 + 4 * nbits) \div 8
        bits  == BitReads(n, 0, 5 + 4 * nbits)
    IN  IF InsufficientPrefix(byte_pos, n) THEN [rc |-> -4, hdr |-> h, rd |-> bits]
        ELSE [ rc  |-> 0,
               hdr |-> [h EXCEPT
                          !.width_px = CDiv(xmax - xmin, 20),
                          !.height_px = CDiv(ymax - ymin, 20),
                          !.fps = FloatDiv256(read_u16_le(UcByte(byte_pos, g),
                                                          UcByte(byte_pos + 1, g))),
                          !.frame_count = read_u16_le(UcByte(byte_pos + 2, g),
                                                      UcByte(byte_pos + 3, g))],
               rd  |-> bits \cup byte_pos..(byte_pos + 3) ]

\* swf_read_header, lines 112-140: fclose, then the parse of the prefix.
swf_read_header_parse ==
    /\ entry = "read_header"
    /\ phase = "parse"
    /\ fd' = Closed
    /\ IF lv.r # 0
       THEN /\ rc' = -3
            /\ UNCHANGED <<hdr, rd, oob>>
       ELSE \E g \in OobBytes :
              LET p == ParseHeader(hdr, g)
              IN  /\ rc' = p.rc
                  /\ hdr' = p.hdr
                  /\ rd' = p.rd
                  /\ oob' = (oob \/ \E i \in p.rd : i >= Len(uc))
    /\ phase' = "done"
    /\ UNCHANGED <<file, entry, mem, zs, lv, uc, swf_len>>
    /\ UNCHANGED <<buf, stack, out, print_limit, printed, trace>>

\* what an entry point returns for a signature that is neither FWS nor CWS:
\* swf_tags.c line 110, and swf_parse.c line 88 through line 113
UnsupportedCode(e) == IF e = "scan_tags" THEN -9 ELSE -3

(***************************************************************************)
(* One call of an entry point on a file, as swf_show_header makes them.    *)
(***************************************************************************)
\* what *out holds before the call (an uninitialised local of the caller)
DirtySummary ==
    [ZeroSummary EXCEPT !.total_tags = 7, !.sprite_count = 1,
                        !.has_file_attributes = TRUE, !.use_as3 = TRUE]

DirtyHeader ==
    [ZeroHeader EXCEPT !.signature = SigCWS, !.width_px = 1, !.frame_count = 9]

InitLoad ==
    /\ file \in Files
    /\ entry \in {"scan_tags", "read_header"}
    /\ rc = "none"
    /\ fd = [open |-> FALSE, pos |-> 0, closes |-> 0]
    /\ mem = [state |-> "none", frees |-> 0]
    /\ zs = NoStream
    /\ lv = NoLocals
    /\ uc = <<>>
    /\ \E dirty \in BOOLEAN :
        /\ hdr = IF dirty /\ entry = "read_header" THEN DirtyHeader ELSE ZeroHeader
        /\ out = IF dirty /\ entry = "scan_tags" THEN DirtySummary ELSE ZeroSummary
    /\ swf_len = 0
    /\ buf = <<>>
    /\ stack = <<>>
    /\ print_limit = 15
    /\ printed = 0
    /\ trace = <<>>
    /\ rd = {}
    /\ oob = FALSE
    /\ phase = "start"

NextLoad ==
    \/ swf_load_header
    \/ swf_load_fws
    \/ swf_load_inflate_init
    \/ swf_load_inflate
    \/ swf_load_inflate_done
    \/ swf_load_unsupported
    \/ swf_scan_tags_offset
    \/ scan_stream_tag
    \/ scan_stream_break
    \/ scan_stream_exit
    \/ scan_stream_return
    \/ scan_stream_fault
    \/ swf_scan_tags_return
    \/ swf_read_header_open
    \/ prefix_fws
    \/ prefix_inflate_init
    \/ prefix_inflate
    \/ prefix_inflate_done
    \/ prefix_unsupported
    \/ swf_read_header_parse

SpecLoad == InitLoad /\ [][NextLoad]_vars

(***************************************************************************)
(* swf_show_header called on the same file again and again: each call runs *)
(* swf_read_header into its local hdr, prints the result, and for an FWS   *)
(* or CWS header runs swf_scan_tags.  The local hdr of a later call lies   *)
(* where that of the earlier call lay, so it starts with its contents.     *)
(***************************************************************************)
MaxCalls == 2

\* what swf_show_header prints of the result of swf_read_header; init_failed
\* notes that inflateInit failed in that call
HeaderLine ==
    [ kind |-> "header", indent |-> 0, a |-> rc, b |-> 0, len |-> ToU32(0),
      hdr |-> hdr, init_failed |-> (lv.r = -2) ]

HeaderLines(t) == SelectSeq(t, LAMBDA l : l.kind = "header")

\* swf_info.c lines 18-49: the result is printed, then the function returns
\* or calls swf_scan_tags
swf_show_header_report ==
    /\ entry = "read_header"
    /\ phase = "done"
    /\ trace' = Append(trace, HeaderLine)
    /\ IF rc = 0 /\ hdr.signature \in {SigFWS, SigCWS}
       THEN /\ entry' = "scan_tags"
            /\ phase' = "start"
            /\ rc' = "none"
            /\ fd' = [open |-> FALSE, pos |-> 0, closes |-> 0]
            /\ zs' = NoStream
            /\ lv' = NoLocals
       ELSE /\ phase' = "shown"
            /\ UNCHANGED <<entry, rc, fd, zs, lv>>
    /\ UNCHANGED <<file, mem, uc, hdr, swf_len, buf, stack, out, print_limit, printed,
                   rd, oob>>

\* swf_show_header has returned and is called on the same path again; its
\* local hdr holds what the earlier call left there or other data
swf_show_header_again ==
    /\ \/ phase = "shown"
       \/ entry = "scan_tags" /\ phase = "done"
    /\ Len(HeaderLines(trace)) < MaxCalls
    /\ entry' = "read_header"
    /\ phase' = "start"
    /\ rc' = "none"
    /\ fd' = [open |-> FALSE, pos |-> 0, closes |-> 0]
    /\ mem' = [state |-> "none", frees |-> 0]
    /\ zs' = NoStream
    /\ lv' = NoLocals
    /\ uc' = <<>>
    /\ buf' = <<>>
    /\ swf_len' = 0
    /\ stack' = <<>>
    /\ printed' = 0
    /\ rd' = {}
    /\ hdr' \in {hdr, DirtyHeader}
    /\ UNCHANGED <<file, out, print_limit, trace, oob>>

\* the files whose declared length is that of the file, more, one less, or 8
TwiceFiles ==
    { f \in Files :
        \/ Len(f.head) < 8
        \/ SubSeq(f.head, 5, 8) \in { U32Bytes(ToU32(8 + Len(f.body))),
                                      U32Bytes(ToU32(8 + Len(f.body) + MoreDeclared)),
                                      U32Bytes(ToU32(7 + Len(f.body))),
                                      U32Bytes(ToU32(8)) } }

InitTwice == InitLoad /\ entry = "read_header" /\ file \in TwiceFiles

NextTwice ==
    \/ swf_read_header_open
    \/ prefix_fws
    \/ prefix_inflate_init
    \/ prefix_inflate
    \/ prefix_inflate_done
    \/ prefix_unsupported
    \/ swf_read_header_parse
    \/ swf_load_header
    \/ swf_load_fws
    \/ swf_load_inflate_init
    \/ swf_load_inflate
    \/ swf_load_inflate_done
    \/ swf_scan_tags_offset
    \/ scan_stream_tag
    \/ scan_stream_break
    \/ scan_stream_exit
    \/ scan_stream_return
    \/ scan_stream_fault
    \/ swf_scan_tags_return
    \/ swf_show_header_report
    \/ swf_show_header_again

SpecTwice == InitTwice /\ [][NextTwice]_vars

(***************************************************************************)
(* Uncompressed files whose body is a stage-bounds record of every field   *)
(* width, packed most significant bit first, then FrameRate and            *)
(* FrameCount; and swf_read_header called on them.                         *)
(***************************************************************************)
\* the n-bit two's-complement pattern of v, most significant bit first
FieldBits(v, n) ==
    LET u == IF v < 0 THEN (v + 2 ^ (n - 1)) + 2 ^ (n - 1) ELSE v
    IN  [i \in 1..n |-> (u \div (2 ^ (n - i))) % 2]

\* the bytes holding a bit sequence, the last one padded with zero bits
PackBits(bits) ==
    LET B(i) == IF i <= Len(bits) THEN bits[i] ELSE 0
    IN  [j \in 1..((Len(bits) + 7) \div 8) |->
            128 * B(8 * j - 7) + 64 * B(8 * j - 6) + 32 * B(8 * j - 5)
                + 16 * B(8 * j - 4) + 8 * B(8 * j - 3) + 4 * B(8 * j - 2)
                + 2 * B(8 * j - 1) + B(8 * j)]

RectBytes(n, xmin, xmax, ymin, ymax) ==
    PackBits(FieldBits(n, 5) \o FieldBits(xmin, n) \o FieldBits(xmax, n)
                 \o FieldBits(ymin, n) \o FieldBits(ymax, n))

\* every value of the 5-bit nbits field
NbitsRange == 0..31

\* the extremes of an n-bit signed field, and the values around zero
FieldVals(n) == IF n = 0 THEN {0} ELSE {-(2 ^ (n - 1)), 2 ^ (n - 1) - 1, 0, -1}

Rects ==
    UNION { { RectBytes(n, a, b, c[1], c[2]) :
                a \in FieldVals(n), b \in FieldVals(n),
                c \in { <<0, 0>>,
                        IF n = 0 THEN <<0, 0>>
                        ELSE <<2 ^ (n - 1) - 1, -(2 ^ (n - 1))>> } } :
            n \in NbitsRange }
        \cup { RectBytes(15, 0, 11000, 0, 8000),
               RectBytes(7, 0, -39, 19, 0),
               RectBytes(7, -41, 18, 0, 59) }

\* FrameRate and FrameCount, little-endian
RateCounts == { <<0, 12, 1, 0>>, <<128, 23, 255, 255>> }

\* one record of every width, with all four fields at an extreme
CutRects ==
    { RectBytes(n, IF n = 0 THEN 0 ELSE -(2 ^ (n - 1)), IF n = 0 THEN 0 ELSE 2 ^ (n - 1) - 1,
                IF n = 0 THEN 0 ELSE -1, 0) : n \in NbitsRange }

\* bodies that end before the end of FrameCount
CutBodies ==
    UNION { { SubSeq(r \o <<128, 23, 255, 255>>, 1, k) : k \in 0..(Len(r) + 3) } :
            r \in CutRects }

HeaderBodies == { r \o t : r \in Rects, t \in RateCounts } \cup CutBodies

HeaderFiles ==
    { [exists |-> TRUE, head |-> FileHead(SigFWS, 10, ToU32(8 + Len(b))),
       body |-> b, chunks |-> <<>>] : b \in HeaderBodies }

InitHeader ==
    /\ file \in HeaderFiles
    /\ entry = "read_header"
    /\ rc = "none"
    /\ fd = [open |-> FALSE, pos |-> 0, closes |-> 0]
    /\ mem = [state |-> "none", frees |-> 0]
    /\ zs = NoStream
    /\ lv = NoLocals
    /\ uc = <<>>
    /\ hdr \in {ZeroHeader, DirtyHeader}
    /\ out = ZeroSummary
    /\ swf_len = 0
    /\ buf = <<>>
    /\ stack = <<>>
    /\ print_limit = 15
    /\ printed = 0
    /\ trace = <<>>
    /\ rd = {}
    /\ oob = FALSE
    /\ phase = "start"

NextHeader ==
    \/ swf_read_header_open
    \/ prefix_fws
    \/ swf_read_header_parse

SpecHeader == InitHeader /\ [][NextHeader]_vars

(***************************************************************************)
(* The record at the read position of an activation, decoded from the raw  *)
(* bytes with unbounded integers.  complete: header, extended length field *)
(* and payload all lie inside the stream, and the stream inside buf.       *)
(***************************************************************************)
RawRecord(f) ==
    LET a    == f.base + f.pos.lo
        inb  == f.pos.hi = 0 /\ f.len.hi = 0 /\ f.base + f.len.lo <= Len(buf)
                    /\ f.pos.lo + 2 <= f.len.lo
        b0   == IF inb THEN buf[a + 1] ELSE 0
        b1   == IF inb THEN buf[a + 2] ELSE 0
        long == (b0 % 64) = 63
        extb == inb /\ long /\ f.pos.lo + 6 <= f.len.lo
        size == IF extb THEN buf[a + 3] + 256 * buf[a + 4] ELSE b0 % 64
        high == IF extb THEN buf[a + 5] + 256 * buf[a + 6] ELSE 0
        hlen == IF long THEN 6 ELSE 2
    IN  [ complete |-> inb /\ (long => extb) /\ high = 0
                          /\ f.pos.lo + hlen + size <= f.len.lo,
          code  |-> (b0 + 256 * b1) \div 64,
          size  |-> size,
          long  |-> long,
          start |-> f.pos.lo + hlen,
          abs   |-> a ]

\* the innermost activation is at the loop head, on a complete record
AtCompleteRecord ==
    /\ phase = "scan"
    /\ stack # <<>>
    /\ Top.pc = "loop"
    /\ RawRecord(Top).complete

Delta(field) == out'[field] - out[field]

B2N(b) == IF b THEN 1 ELSE 0

\* C1: scan_stream never reads a byte outside the stream it scans, and a
\* record whose header, extended length field or payload extends past the
\* end of the stream is never counted: the last record an activation
\* counted ends inside its stream (no wrap-around of pos + size).
C1_ScanStaysInsideStream ==
    /\ ~oob
    /\ \A i \in DOMAIN stack :
        stack[i].local_idx > 0 =>
            IF stack[i].pc = "call"
            THEN ~SumExceeds(stack[i].pos, stack[i].size, stack[i].len)
            ELSE U32Le(stack[i].size, stack[i].pos)

\* C6: every complete record increments exactly the tag counter of its
\* level (total_tags at root, sprite_tags in a sprite) and, only when its
\* type code is 1, the frame-advance counter of the same level; the crafted
\* stream of the spec yields total_tags=3, showframe_tags=1, sprite_count=1,
\* sprite_tags=2, sprite_showframe_tags=1.
C6_PerLevelCounters ==
    /\ [](buf = CraftedStream /\ phase = "done" =>
            /\ out.total_tags = 3 /\ out.showframe_tags = 1
            /\ out.sprite_count = 1 /\ out.sprite_tags = 2
            /\ out.sprite_showframe_tags = 1)
    /\ [][AtCompleteRecord =>
            LET sp == Top.in_sprite
                c  == RawRecord(Top).code
            IN  /\ Delta("total_tags") = B2N(~sp)
                /\ Delta("sprite_tags") = B2N(sp)
                /\ Delta("showframe_tags") = B2N(~sp /\ c = 1)
                /\ Delta("sprite_showframe_tags") = B2N(sp /\ c = 1)]_vars

C6_Witness ==
    /\ buf = CraftedStream
    /\ phase = "done"
    /\ out.total_tags = 3 /\ out.sprite_tags = 2
    /\ out.showframe_tags = 1 /\ out.sprite_showframe_tags = 1

\* the root activation waits at line 218 for the scan of a complete sprite
InCompleteSprite ==
    /\ phase = "scan"
    /\ Len(stack) = 2
    /\ stack[1].pc = "call"
    /\ stack[1].len.hi = 0 /\ stack[1].size.hi = 0
    /\ stack[1].pos.lo + stack[1].size.lo <= stack[1].len.lo
    /\ stack[1].base + stack[1].len.lo <= Len(buf)

\* C7: a complete type-39 record at root level with payload >= 4 adds one to
\* sprite_count and has its payload bytes [4, size) scanned as a nested
\* stream counted in the sprite counters; the nested scan reads no byte
\* outside that payload, and when it returns the root scan continues at the
\* record right after the payload.  With payload < 4 the record is counted
\* as a root tag only.
C7_SpriteRecursion ==
    /\ [][AtCompleteRecord /\ ~Top.in_sprite /\ RawRecord(Top).code = 39 =>
            LET r == RawRecord(Top)
                n == Len(stack)
            IN  /\ Delta("total_tags") = 1
                /\ Delta("sprite_tags") = 0
                /\ IF r.size >= 4
                   THEN /\ Delta("sprite_count") = 1
                        /\ Len(stack') = n + 1
                        /\ stack'[n + 1].in_sprite
                        /\ stack'[n + 1].base = Top.base + r.start + 4
                        /\ stack'[n + 1].len = ToU32(r.size - 4)
                        /\ stack'[n + 1].pos = ToU32(0)
                   ELSE /\ Delta("sprite_count") = 0
                        /\ Len(stack') = n
                        /\ stack'[n].pos = ToU32(r.start + r.size)]_vars
    /\ [][InCompleteSprite =>
            LET lo == stack[1].base + stack[1].pos.lo + 4
                hi == stack[1].base + stack[1].pos.lo + stack[1].size.lo
            IN  /\ rd' \subseteq lo..(hi - 1)
                /\ oob' = oob
                /\ Delta("total_tags") = 0
                /\ Delta("sprite_count") = 0
                /\ Len(stack') = 1 =>
                      /\ stack'[1].pc = "loop"
                      /\ stack'[1].pos =
                            ToU32(stack[1].pos.lo + stack[1].size.lo)]_vars

\* a sprite whose inner records were counted has returned and the root
\* record after it has been counted too
C7_Witness ==
    /\ buf = Sprite(8, Hdr(1, 0) \o Hdr(1, 0)) \o Hdr(1, 0)
    /\ phase = "done"
    /\ out.sprite_count = 1 /\ out.sprite_tags = 2 /\ out.total_tags = 2

\* C8: a complete type-0 record is counted and then ends the scan of its own
\* stream only: its activation returns without counting anything more, the
\* enclosing activation is untouched by the record and, once the sprite scan
\* has returned, goes on with the root records that follow the sprite.
C8_EndTerminatesOwnStream ==
    /\ [][AtCompleteRecord /\ RawRecord(Top).code = 0 =>
            LET n == Len(stack)
            IN  /\ Delta("total_tags") + Delta("sprite_tags") = 1
                /\ Len(stack') = n
                /\ stack'[n].pc = "ret"
                /\ \A i \in 1..(n - 1) : stack'[i] = stack[i]]_vars
    /\ [][phase = "scan" /\ stack # <<>> /\ Top.pc = "ret" =>
            /\ out' = out
            /\ Len(stack') = Len(stack) - 1
            /\ Len(stack') > 0 => stack'[Len(stack')].pc = "loop"]_vars
    /\ [](buf = Sprite(6, Hdr(0, 0)) \o Hdr(1, 0) /\ phase = "done" =>
            out.sprite_tags = 1 /\ out.total_tags = 2 /\ out.showframe_tags = 1)
    /\ [](buf = Hdr(0, 0) \o Hdr(1, 0) /\ phase = "done" => out.total_tags = 1)

\* an End inside a sprite was counted and the ShowFrame after the sprite too
C8_Witness ==
    /\ buf = Sprite(6, Hdr(0, 0)) \o Hdr(1, 0)
    /\ phase = "done"
    /\ out.sprite_tags = 1 /\ out.total_tags = 2 /\ out.showframe_tags = 1

C10_RecordHeaderLayout ==
    /\ [][AtCompleteRecord =>
            LET r == RawRecord(Top)
                n == Len(stack)
                nested == Len(stack') = n + 1
            IN  /\ {r.abs, r.abs + 1} \subseteq rd'
                /\ r.long => (r.abs + 2)..(r.abs + 5) \subseteq rd'
                /\ stack'[n].code = r.code
                /\ stack'[n].size = ToU32(r.size)
                /\ stack'[n].pos =
                      ToU32(r.start + (IF nested THEN 0 ELSE r.size))]_vars
    /\ [][buf = ExtendedStream /\ phase = "scan" /\ out.total_tags = 1
            /\ Top.pc = "loop" => rd' = {262, 263}]_vars
    /\ [](buf = ExtendedStream /\ phase = "done" =>
            out.total_tags = 2 /\ out.showframe_tags = 1)

\* the record after the 256 skipped bytes has been read and counted
C10_Witness ==
    /\ buf = ExtendedStream
    /\ phase = "done"
    /\ out.total_tags = 2 /\ out.showframe_tags = 1

(***************************************************************************)
(* The file on disk, read directly from its bytes.                         *)
(***************************************************************************)
HasHeader == file.exists /\ Len(file.head) = 8

FileSig == SubSeq(file.head, 1, 3)

DeclaredBytes == SubSeq(file.head, 5, 8)

DeclaredBelow8 ==
    DeclaredBytes[1] < 8 /\ DeclaredBytes[2] = 0 /\ DeclaredBytes[3] = 0
        /\ DeclaredBytes[4] = 0

\* 12 MiB is 0x00C00000
DeclaredAbove12MiB ==
    \/ DeclaredBytes[4] > 0
    \/ DeclaredBytes[3] > 192
    \/ DeclaredBytes[3] = 192 /\ (DeclaredBytes[2] > 0 \/ DeclaredBytes[1] > 0)

InsideWindow == HasHeader /\ ~DeclaredBelow8 /\ ~DeclaredAbove12MiB

\* the declared length of a file inside the window
DeclaredInt == DeclaredBytes[1] + 256 * DeclaredBytes[2] + 65536 * DeclaredBytes[3]

\* C2: swf_scan_tags rejects every declared length below 8 or above 12 MiB
\* with the size-out-of-bounds code -3, having allocated nothing; a declared
\* length of exactly 8 or exactly 12 MiB (and any in between) is never
\* rejected with that code.
C2_WindowCheck ==
    entry = "scan_tags" /\ HasHeader /\ phase # "start" =>
        IF DeclaredBelow8 \/ DeclaredAbove12MiB
        THEN /\ phase = "done"
             /\ rc = -3
             /\ mem = [state |-> "none", frees |-> 0]
             /\ buf = <<>>
             /\ swf_len = 0
        ELSE phase = "done" => rc # -3

\* a declared length of 12 MiB + 1 has been rejected
C2_Witness ==
    /\ entry = "scan_tags"
    /\ HasHeader
    /\ DeclaredBytes = <<1, 0, 192, 0>>
    /\ phase = "done"
    /\ rc = -3
    /\ mem.state = "none"

\* a failure of one of the kinds file not found, header too short, size out
\* of bounds, decompression failure or insufficient prefix
OtherKindFailure ==
    /\ phase = "done"
    /\ rc # 0
    /\ \/ ~file.exists
       \/ Len(file.head) < 8
       \/ entry = "scan_tags" /\ ~InsideWindow
       \/ FileSig \in {SigFWS, SigCWS} /\ (entry = "scan_tags" => mem.state # "none")

\* C3: on a ZWS file with a declared length inside the window each entry
\* point returns its unsupported-variant code, which is not success and
\* which it returns for no failure of another kind.
C3_UnsupportedVariantDistinct ==
    /\ (phase = "done" /\ InsideWindow /\ FileSig = SigZWS
            /\ (entry = "scan_tags" => mem.state # "none"))
          => rc = UnsupportedCode(entry) /\ rc # 0
    /\ OtherKindFailure => rc # UnsupportedCode(entry)

\* an uncompressed file inside the window whose body on disk is shorter than
\* the declared length says, and the buffer for it was allocated
TruncatedFws ==
    /\ entry = "scan_tags"
    /\ InsideWindow
    /\ FileSig = SigFWS
    /\ Len(file.body) < DeclaredInt - 8
    /\ mem.state # "none"

\* C4 as stated: swf_scan_tags on a truncated uncompressed file returns
\* success (with the partial summary).
C4_TruncatedFwsSucceeds ==
    TruncatedFws /\ phase = "done" => rc = 0

\* C4, amended: swf_scan_tags on a truncated uncompressed file returns -5
\* once the short read is seen; the buffer is freed, no record is scanned or
\* printed and the summary stays all zero.
C4_TruncatedFwsRejected ==
    TruncatedFws /\ phase # "body" =>
        /\ phase = "done"
        /\ rc = -5
        /\ mem = [state |-> "freed", frees |-> 1]
        /\ fd.closes = 1
        /\ out = ZeroSummary
        /\ stack = <<>>
        /\ rd = {}
        /\ \A i \in 1..Len(trace) : trace[i].kind = "fail"

\* the truncated file holds complete records after the movie header
C4_Witness ==
    /\ TruncatedFws
    /\ phase = "done"
    /\ rc = -5
    /\ file.body = MovieHead \o CraftedStream

\* a compressed file whose inflate loop has been run and left
CwsRun == HasHeader /\ FileSig = SigCWS /\ zs.state = "ended"

\* the inflater reported a data error
DataError == zs.ret = "Z_DATA_ERROR"

\* the output room left when the loop was left
Room == IF entry = "scan_tags" THEN zs.avail_out ELSE OUT_CAP - Len(uc)

\* the input ran out before end-of-stream and before the output was full
Exhausted == zs.ret = "Z_OK" /\ NoInput /\ AtEof /\ Room > 0

\* C5 as stated: on a data error or on exhausted input both the full load
\* and the bounded prefix fail with a decompression error.
C5_DecompressionFails ==
    CwsRun /\ (DataError \/ Exhausted) =>
        IF entry = "scan_tags"
        THEN phase = "done" /\ rc \in {-7, -8}
        ELSE lv.r \in {-3, -4} /\ (phase = "done" => rc = -3)

\* C5, amended: the full load fails with -7 on a data error and with -8 on
\* exhausted input, freeing the buffer; the bounded prefix fails (-3) on a
\* data error, but on exhausted input it fails (-4) only when no output byte
\* was produced and otherwise succeeds with the bytes it has; every failure
\* of the prefix makes swf_read_header return -3.
C5_DecompressionOutcome ==
    CwsRun /\ (DataError \/ Exhausted) =>
        IF entry = "scan_tags"
        THEN /\ phase = "done"
             /\ rc = (IF DataError THEN -7 ELSE -8)
             /\ mem.state = "freed"
             /\ out = ZeroSummary
        ELSE /\ lv.r = (IF DataError THEN -3 ELSE IF Len(uc) > 0 THEN 0 ELSE -4)
             /\ (phase = "done" /\ lv.r # 0 => rc = -3)
             /\ (phase = "done" /\ lv.r = 0 => rc \in {0, -4})

\* swf_read_header succeeded on a compressed file whose input ran out
C5_Witness ==
    /\ entry = "read_header"
    /\ CwsRun
    /\ Exhausted
    /\ Len(uc) = 13
    /\ phase = "done"
    /\ rc = 0
    /\ hdr.frame_count = 1

(***************************************************************************)
(* The records of a stream in traversal order, decoded from the raw bytes: *)
(* each complete record, the records of its nested stream when it is a     *)
(* root DefineSprite with a payload of 4 or more, then the records after   *)
(* it unless it is an End.  The traversal of a stream stops at the first   *)
(* record that is not complete.                                            *)
(***************************************************************************)
RawFrame(base, len, pos) == [base |-> base, len |-> ToU32(len), pos |-> ToU32(pos)]

RECURSIVE RefRecords(_, _, _, _)
RefRecords(base, len, pos, sp) ==
    LET r == RawRecord(RawFrame(base, len, pos))
    IN  IF ~r.complete THEN <<>>
        ELSE <<[code |-> r.code, size |-> r.size, sp |-> sp, at |-> base + r.start]>>
                \o (IF ~sp /\ r.code = 39 /\ r.size >= 4
                    THEN RefRecords(base + r.start + 4, r.size - 4, 0, TRUE)
                    ELSE <<>>)
                \o (IF r.code = 0 THEN <<>>
                    ELSE RefRecords(base, len, r.start + r.size, sp))

\* the first record of the stream at pos that is not complete has an
\* extended length so large that pos + size passes 2^32
RECURSIVE RefWraps(_, _, _, _)
RefWraps(base, len, pos, sp) ==
    LET r == RawRecord(RawFrame(base, len, pos))
        a == base + pos
    IN  IF ~r.complete
        THEN /\ pos + 6 <= len
             /\ r.long
             /\ buf[a + 5] + 256 * buf[a + 6] = 65535
             /\ pos + 6 + buf[a + 3] + 256 * buf[a + 4] >= 65536
        ELSE \/ ~sp /\ r.code = 39 /\ r.size >= 4
                  /\ RefWraps(base + r.start + 4, r.size - 4, 0, TRUE)
             \/ r.code # 0 /\ RefWraps(base, len, r.start + r.size, sp)

Count(seq, P(_)) == Cardinality({i \in DOMAIN seq : P(seq[i])})

\* the summary of a sequence of records
RefSummary(rs) ==
    LET IsFA(x) == ~x.sp /\ x.code = 69 /\ x.size >= 4
        fa    == {i \in DOMAIN rs : IsFA(rs[i])}
        last  == CHOOSE i \in fa : \A j \in fa : j <= i
        flags == buf[rs[last].at + 1]
        Bit(k) == fa # {} /\ (flags \div (2 ^ k)) % 2 = 1
        Root(x) == ~x.sp
        Inner(x) == x.sp
        RootShow(x) == ~x.sp /\ x.code = 1
        InnerShow(x) == x.sp /\ x.code = 1
        Spr(x) == ~x.sp /\ x.code = 39 /\ x.size >= 4
    IN  [ total_tags |-> Count(rs, Root),
          showframe_tags |-> Count(rs, RootShow),
          sprite_count |-> Count(rs, Spr),
          sprite_tags |-> Count(rs, Inner),
          sprite_showframe_tags |-> Count(rs, InnerShow),
          has_file_attributes |-> fa # {},
          use_as3 |-> Bit(3),
          use_network |-> Bit(0),
          has_metadata |-> Bit(4) ]

\* the tag lines of a trace, without the detail lines
TagLines(t) == SelectSeq(t, LAMBDA l : l.kind \in {"tag", "stag"})

\* C11: a scan with trace budget n emits at most n tag lines over the root
\* and all nested streams together; the record scanned is given a tag line
\* exactly when fewer than n records were scanned before it, so the lines
\* are those of the first n records in traversal order; the counters go on
\* after the budget is used up, and the returned summary is that of the
\* records of the stream whatever n is.
C11_GlobalTraceBudget ==
    /\ [](phase \in {"scan", "scanned", "done"} =>
            /\ Len(TagLines(trace)) <= print_limit
            /\ Len(TagLines(trace)) = printed)
    /\ [][AtCompleteRecord =>
            LET r == RawRecord(Top)
                k == out.total_tags + out.sprite_tags
                l == TagLines(trace')[Len(TagLines(trace'))]
            IN  IF k < print_limit
                THEN /\ Len(TagLines(trace')) = k + 1
                     /\ SubSeq(trace', 1, Len(trace)) = trace
                     /\ l.kind = (IF Top.in_sprite THEN "stag" ELSE "tag")
                     /\ l.b = r.code
                     /\ l.len = ToU32(r.size)
                ELSE trace' = trace]_vars
    /\ [](phase = "done" /\ ~RefWraps(0, Len(buf), 0, FALSE) =>
            out = RefSummary(RefRecords(0, Len(buf), 0, FALSE)))

\* the budget of 1 went to the sprite record, and all five records of the
\* crafted stream were counted
C11_Witness ==
    /\ buf = CraftedStream
    /\ print_limit = 1
    /\ phase = "done"
    /\ Len(TagLines(trace)) = 1
    /\ trace[1].b = 39
    /\ out.total_tags = 3 /\ out.sprite_tags = 2

(***************************************************************************)
(* The stage-bounds record of the prefix uc, read bit by bit.              *)
(***************************************************************************)
\* bit i (from 0) of uc, most significant bit of each byte first; 0 past
\* the end
UcBit(i) ==
    IF i \div 8 < Len(uc) THEN (uc[(i \div 8) + 1] \div (2 ^ (7 - (i % 8)))) % 2 ELSE 0

UcNbits == 16 * UcBit(0) + 8 * UcBit(1) + 4 * UcBit(2) + 2 * UcBit(3) + UcBit(4)

RECURSIVE WeightSum(_, _)
\* the bits from..from + n - 1 as an unsigned number
WeightSum(from, n) ==
    IF n = 0 THEN 0 ELSE UcBit(from) * 2 ^ (n - 1) + WeightSum(from + 1, n - 1)

\* field k (0..3) of the record: the sign bit weighs -2^(nbits-1)
UcField(k) ==
    LET n == UcNbits
        s == 5 + k * n
    IN  IF n = 0 THEN 0
        ELSE WeightSum(s + 1, n - 1) - UcBit(s) * 2 ^ (n - 1)

\* a - b lies in the range of a 32-bit signed integer
FitsInt32(a, b) ==
    LET q == (a \div 2) - (b \div 2)
        r == (a % 2) - (b % 2)
    IN  /\ q >= -(2 ^ 30) /\ (q = -(2 ^ 30) => r >= 0)
        /\ q <= 2 ^ 30 /\ (q = 2 ^ 30 => r = -1)

\* q is d / 20 truncated toward zero
IsTruncDiv20(q, d) ==
    LET rest == d - 20 * q
    IN  IF d >= 0 THEN 0 <= rest /\ rest < 20 ELSE -20 < rest /\ rest <= 0

\* C12: swf_read_header reads nbits from the first 5 bits and the four
\* signed nbits-wide fields as xmin, xmax, ymin, ymax; on success width_px
\* is (xmax - xmin) / 20 and height_px is (ymax - ymin) / 20 truncated
\* toward zero; for every nbits in 0..31 the two differences fit a 32-bit
\* signed integer; the record (0, 11000, 0, 8000) gives 550 by 400.
C12_StageBounds ==
    entry = "read_header" /\ phase = "done" /\ rc = 0 =>
        /\ FitsInt32(UcField(1), UcField(0))
        /\ FitsInt32(UcField(3), UcField(2))
        /\ IsTruncDiv20(hdr.width_px, UcField(1) - UcField(0))
        /\ IsTruncDiv20(hdr.height_px, UcField(3) - UcField(2))
        /\ (Len(uc) >= 9 /\ SubSeq(uc, 1, 9) = RectStage =>
                hdr.width_px = 550 /\ hdr.height_px = 400)

\* a 31-bit record with xmax - xmin = 2^31 - 1 has been decoded
C12_Witness ==
    /\ entry = "read_header" /\ phase = "done" /\ rc = 0
    /\ UcNbits = 31
    /\ UcField(0) = -(2 ^ 30)
    /\ UcField(1) = 2 ^ 30 - 1
    /\ hdr.width_px = 107374182

\* the byte offset after the stage-bounds record: ceil((5 + 4 * nbits) / 8)
UcRectBytes == (5 + 4 * UcNbits + 7) \div 8

\* 256 times the value of the float mant * 2^exp, when that is a whole
\* number
Times256(f) == f.mant * 2 ^ (f.exp + 8)

\* C13: on success the two bytes at offset ceil((5 + 4 * nbits) / 8) of the
\* body, read little-endian, are 256 times fps (the frame rate in 8.8 fixed
\* point; bytes 0x00, 0x0C give fps 12), and the next two bytes, read
\* little-endian, are frame_count unchanged.
C13_FrameRateAndCount ==
    entry = "read_header" /\ phase = "done" /\ rc = 0 =>
        LET at == UcRectBytes
        IN  /\ at + 4 <= Len(uc)
            /\ hdr.fps.exp + 8 >= 0
            /\ Times256(hdr.fps) = uc[at + 1] + 256 * uc[at + 2]
            /\ hdr.frame_count = uc[at + 3] + 256 * uc[at + 4]
            /\ (uc[at + 1] = 0 /\ uc[at + 2] = 12 =>
                    Times256(hdr.fps) = 3072 /\ Times256(hdr.fps) = 12 * 256)

\* the frame rate bytes 0x00, 0x0C of the 550 x 400 movie were decoded
C13_Witness ==
    /\ entry = "read_header" /\ phase = "done" /\ rc = 0
    /\ uc = RectStage \o <<0, 12, 1, 0>>
    /\ Times256(hdr.fps) = 3072
    /\ hdr.frame_count = 1

C15_ReleasedExactlyOnce ==
    /\ [](/\ fd.closes <= 1 /\ mem.frees <= 1 /\ zs.ends <= 1
          /\ (fd.open => fd.closes = 0)
          /\ (mem.state = "live" => mem.frees = 0)
          /\ (zs.state = "live" => zs.ends = 0)
          /\ (phase = "done" =>
                /\ ~fd.open
                /\ fd.closes = (IF file.exists THEN 1 ELSE 0)
                /\ mem.state \in {"none", "freed"}
                /\ mem.frees = (IF mem.state = "freed" THEN 1 ELSE 0)
                /\ zs.state \in {"none", "ended"}
                /\ zs.ends = (IF zs.state = "ended" THEN 1 ELSE 0)
                /\ (entry = "scan_tags" /\ rc \in {0, -20, -5, -6, -7, -8, -9}
                        => mem.state = "freed")))
    /\ [][/\ (rd' # rd /\ rd' # {} /\ entry = "scan_tags" => mem.state = "live")
          /\ (buf' # buf => mem.state = "live" \/ mem'.state = "live")
          /\ (fd'.pos # fd.pos => fd'.open \/ fd.open)
          /\ (zs'.left # zs.left \/ zs'.ret # zs.ret => zs.state = "live")
         ]_<<fd, mem, zs, rd, buf>>

\* a compressed file with corrupt data: closed, freed and ended once each
C15_Witness ==
    /\ entry = "scan_tags"
    /\ phase = "done"
    /\ rc = -7
    /\ fd.closes = 1 /\ mem.frees = 1 /\ zs.ends = 1

\* C16: two calls of swf_read_header on the same file give the same return
\* code and the same SwfHeader, whatever the output struct held before each
\* call (the result of the earlier call, or other data) and with a tag scan
\* of the file in between; stated for calls in which inflateInit succeeded.
C16_HeaderIsFunctionOfFile ==
    LET hs == HeaderLines(trace)
    IN  \A i, j \in DOMAIN hs :
            ~hs[i].init_failed /\ ~hs[j].init_failed =>
                hs[i].a = hs[j].a /\ hs[i].hdr = hs[j].hdr

\* the 550 x 400 movie was read a second time after its tags were scanned,
\* the first call having started on a struct with other contents
C16_Witness ==
    LET hs == HeaderLines(trace)
    IN  /\ Len(hs) = 2
        /\ Len(TagLines(trace)) > 0
        /\ hs[1].a = 0 /\ hs[2].a = 0
        /\ hs[2].hdr.width_px = 550 /\ hs[2].hdr.frame_count = 1

\* C17: when swf_load_uncompressed succeeds the file carried FWS or CWS,
\* the length returned is the declared length, and the first 8 bytes of the
\* buffer are 'F', 'W', 'S', the version byte of the file and the declared
\* length in little-endian order, whichever of the two signatures it
\* carried.
C17_CanonicalBuffer ==
    entry = "scan_tags" /\ phase = "offset" =>
        /\ FileSig \in {SigFWS, SigCWS}
        /\ InsideWindow
        /\ swf_len = DeclaredInt
        /\ mem.state = "live"
        /\ Len(buf) >= 8
        /\ SubSeq(buf, 1, 3) = <<70, 87, 83>>
        /\ buf[4] = file.head[4]
        /\ SubSeq(buf, 5, 8) = DeclaredBytes

\* a compressed file has been loaded
C17_Witness ==
    /\ entry = "scan_tags" /\ phase = "offset"
    /\ FileSig = SigCWS
    /\ SubSeq(buf, 1, 3) = SigFWS
    /\ Len(buf) = swf_len
    /\ swf_len > 8

\* the largest element of a non-empty set of numbers
MaxOf(S) == CHOOSE x \in S : \A y \in S : y <= x

\* C18: with nbits the top 5 bits of byte 8 of the canonical buffer,
\* swf_tag_start_offset gives 8 + ceil((5 + 4 * nbits) / 8) + 4, the root
\* scan starts there, and that is one past the last byte swf_read_header
\* read of the same file (the end of the frame count); when the offset
\* exceeds the buffer length or the buffer is shorter than 9 bytes,
\* swf_scan_tags fails (-20) and scans no record.
C18_TagStartOffset ==
    /\ [][entry = "scan_tags" /\ phase = "offset" /\ (swf_len >= 9 => Len(buf) >= 9) =>
            LET nbits == buf[9] \div 8
                off   == 8 + ((5 + 4 * nbits + 7) \div 8) + 4
            IN  IF swf_len < 9 \/ off > swf_len
                THEN /\ phase' = "done"
                     /\ rc' = -20
                     /\ stack' = <<>>
                     /\ out' = ZeroSummary
                     /\ TagLines(trace') = <<>>
                ELSE /\ phase' = "scan"
                     /\ Len(stack') = 1
                     /\ stack'[1].base = off
                     /\ stack'[1].len = ToU32(swf_len - off)
                     /\ stack'[1].pos = ToU32(0)
                     /\ (HeaderLines(trace) # <<>> =>
                            /\ off = 8 + UcRectBytes + 4
                            /\ off = 8 + MaxOf(rd) + 1)
         ]_<<phase, stack>>
    /\ [](entry = "scan_tags" /\ phase = "done" /\ rc = -20 =>
            out = ZeroSummary /\ TagLines(trace) = <<>> /\ rd = {})

\* the root scan of the 550 x 400 movie starts at offset 21, where the
\* header read of the same file stopped
C18_Witness ==
    /\ entry = "scan_tags" /\ phase = "scan"
    /\ HeaderLines(trace) # <<>>
    /\ Len(buf) >= 17
    /\ SubSeq(buf, 9, 17) = RectStage
    /\ Len(stack) = 1
    /\ stack[1].base = 21
    /\ stack[1].local_idx = 0
    /\ 8 + UcRectBytes + 4 = 21

(***************************************************************************)
(* The bit reader on its own: BitReader br = { uc, uc_len, bitpos } (BR in *)
(* swf_tags.c) over every buffer of BitBuffers, from every cursor, and the *)
(* calls a caller can make on it: a read at the cursor it was built with  *)
(* or aligned to, and an alignment after a read.                           *)
(***************************************************************************)
MaxBufLen == 5

\* byte i of the three buffer families
PatternByte(f, i) ==
    IF f = 0 THEN (165 + 91 * i) % 256
    ELSE IF f = 1 THEN 255 - ((165 + 91 * i) % 256)
    ELSE 255

BitBuffers == { [i \in 1..len |-> PatternByte(f, i - 1)] : f \in 0..2, len \in 0..MaxBufLen }

\* cursors from which a call is made: every bit of the longest buffer and
\* one byte past it
MaxCursor == 8 * MaxBufLen + 8

BitCounts == 0..32

InitBits ==
    /\ file = NoFile
    /\ entry = "bit_reader"
    /\ rc = "none"
    /\ fd = [open |-> FALSE, pos |-> 0, closes |-> 0]
    /\ mem = [state |-> "none", frees |-> 0]
    /\ zs = NoStream
    /\ uc \in BitBuffers
    /\ \E c \in 0..MaxCursor : lv = [NoLocals EXCEPT !.bitpos = c]
    /\ hdr = ZeroHeader
    /\ out = ZeroSummary
    /\ swf_len = 0
    /\ buf = <<>>
    /\ stack = <<>>
    /\ print_limit = 15
    /\ printed = 0
    /\ trace = <<>>
    /\ rd = {}
    /\ oob = FALSE
    /\ phase = "bits"

\* what a call leaves unchanged
BitsFrame == UNCHANGED <<file, entry, rc, fd, mem, zs, uc, hdr, swf_len, buf,
                         stack, out, print_limit, printed, trace, phase>>

\* br_read_bits(&br, n) of swf_parse.c
call_br_read_bits ==
    /\ phase = "bits"
    /\ lv.op \in {"none", "br_align"}
    /\ lv.bitpos <= MaxCursor
    /\ \E n \in BitCounts, g \in OobBytes :
        /\ lv' = [lv EXCEPT !.op = "br_read_bits", !.n = n,
                            !.v = br_read_bits(uc, Len(uc), lv.bitpos, n, ToU32(0), g),
                            !.sv = 0,
                            !.bitpos = @ + n]
        /\ rd' = BitReads(Len(uc), lv.bitpos, n)
        /\ oob' = \E i \in rd' : i >= Len(uc)
    /\ BitsFrame

\* br_bits(&br, n) of swf_tags.c
call_br_bits ==
    /\ phase = "bits"
    /\ lv.op \in {"none", "br_align"}
    /\ lv.bitpos <= MaxCursor
    /\ \E n \in BitCounts, g \in OobBytes :
        /\ lv' = [lv EXCEPT !.op = "br_bits", !.n = n,
                            !.v = br_bits(uc, Len(uc), lv.bitpos, n, ToU32(0), g),
                            !.sv = 0,
                            !.bitpos = @ + n]
        /\ rd' = BitReads(Len(uc), lv.bitpos, n)
        /\ oob' = \E i \in rd' : i >= Len(uc)
    /\ BitsFrame

\* br_read_sbits(&br, n)
call_br_read_sbits ==
    /\ phase = "bits"
    /\ lv.op \in {"none", "br_align"}
    /\ lv.bitpos <= MaxCursor
    /\ \E n \in BitCounts, g \in OobBytes, s \in ShiftByWidth :
        LET u == br_read_bits(uc, Len(uc), lv.bitpos, n, ToU32(0), g)
        IN  /\ lv' = [lv EXCEPT !.op = "br_read_sbits", !.n = n, !.v = u,
                                !.sv = br_read_sbits(u, n, s),
                                !.bitpos = @ + n]
            /\ rd' = BitReads(Len(uc), lv.bitpos, n)
            /\ oob' = \E i \in rd' : i >= Len(uc)
    /\ BitsFrame

\* br_byte_align(&br) of swf_parse.c, br_align(&br) of swf_tags.c
call_br_align ==
    /\ phase = "bits"
    /\ lv.op # "br_align"
    /\ lv' = [lv EXCEPT !.op = "br_align", !.n = 0, !.v = ToU32(0), !.sv = 0,
                        !.bitpos = br_align(@)]
    /\ rd' = {}
    /\ oob' = FALSE
    /\ BitsFrame

NextBits ==
    \/ call_br_read_bits
    \/ call_br_bits
    \/ call_br_read_sbits
    \/ call_br_align

SpecBits == InitBits /\ [][NextBits]_vars

\* C19: from every cursor of every buffer and for every n in 0..32,
\* br_read_bits and br_bits return the next n bits as a number, the first
\* bit read the most significant, in each byte from bit 7 down and on into
\* the next byte, a bit of a byte at or past the length being 0; they read no
\* byte outside the buffer and leave the cursor n bits further.  br_align
\* moves the cursor to the next multiple of 8 and leaves a multiple of 8
\* where it is.
BitsAsU32(c, n) ==
    IF n > 16 THEN U32(WeightSum(c, n - 16), WeightSum(c + n - 16, 16))
    ELSE U32(0, WeightSum(c, n))

C19_BitReader ==
    /\ [][ lv'.op \in {"br_read_bits", "br_bits"} =>
             /\ lv'.v = BitsAsU32(lv.bitpos, lv'.n)
             /\ lv'.bitpos = lv.bitpos + lv'.n
             /\ rd' \subseteq 0..(Len(uc) - 1)
             /\ ~oob' ]_<<lv, rd, oob>>
    /\ [][ lv'.op = "br_align" =>
             /\ lv'.bitpos % 8 = 0
             /\ lv'.bitpos >= lv.bitpos
             /\ lv'.bitpos < lv.bitpos + 8
             /\ (lv.bitpos % 8 = 0 => lv'.bitpos = lv.bitpos) ]_<<lv, rd, oob>>

\* a 32-bit read that starts inside a byte, runs past the end of the buffer
\* and returns a value with bit 31 set
C19_Witness ==
    /\ lv.op \in {"br_read_bits", "br_bits"}
    /\ lv.n = 32
    /\ (lv.bitpos - 32) % 8 # 0
    /\ Len(uc) > 0
    /\ lv.bitpos - 32 < 8 * Len(uc)
    /\ lv.bitpos > 8 * Len(uc)
    /\ lv.v.hi >= 32768
    /\ lv.v = BitsAsU32(lv.bitpos - 32, 32)

\* C20: for every n in 0..32 and every n-bit field u, br_read_sbits returns
\* u read as an n-bit two's-complement number: u when bit n-1 is clear,
\* u - 2^n when it is set, 0 when n = 0.
SignBitSet(u, n) ==
    IF n = 0 THEN FALSE
    ELSE IF n = 32 THEN u.hi >= 32768
    ELSE U32Val(u) >= 2 ^ (n - 1)

\* u - 2^n, for u with bit n-1 set
MinusPow(u, n) ==
    IF n = 32 THEN (u.hi - W16) * W16 + u.lo
    ELSE (U32Val(u) - 2 ^ (n - 1)) - 2 ^ (n - 1)

C21_LoadedBufferWritten ==
    entry = "scan_tags" /\ phase \in {"offset", "scan"} =>
        /\ Len(buf) = swf_len
        /\ \A i \in rd : i < Len(buf)

\* C22: scan_stream terminates on every finite buffer: every loop iteration
\* of an activation leaves its read position strictly greater than it found
\* it (offsets in 32-bit unsigned arithmetic, for every payload length) and
\* never past len, and at most two activations exist at a time, because an
\* iteration inside a sprite pushes no activation and leaves sprite_count
\* as it is (it counts a type-39 record as a sprite tag only).
PosMoved(i) ==
    stack'[i].local_idx # stack[i].local_idx \/ stack'[i].pos # stack[i].pos

C22_ScanTerminates ==
    /\ [](phase = "scan" =>
            /\ Len(stack) <= 2
            /\ \A i \in DOMAIN stack : U32Le(stack[i].pos, stack[i].len))
    /\ [][\A i \in DOMAIN stack \cap DOMAIN stack' :
            PosMoved(i) => U32Gt(stack'[i].pos, stack[i].pos)]_stack
    /\ [][stack # <<>> /\ Top.in_sprite =>
            /\ Len(stack') <= Len(stack)
            /\ out'.sprite_count = out.sprite_count
            /\ out'.total_tags = out.total_tags]_<<stack, out>>

(***************************************************************************)
(* main (main.c lines 258-345): the selector loop, the playback loop and   *)
(* exit_app.  trace records the calls bridge_player_create_with_url,       *)
(* bridge_tick and bridge_player_destroy with the context they are made    *)
(* on; the other calls of an iteration (toggles, snapshot, HUD, present)   *)
(* create and destroy nothing and are left out.  phase is the position in  *)
(* main: "outer" at line 258, "select" at line 260, "cancelled" at line    *)
(* 267, "play" at line 285, "exited" after gfxExit.                        *)
(***************************************************************************)
MaxPicks == 2

MaxFrames == 2

\* the keys main tests in hidKeysDown()
Keys == {"START", "B", "SELECT", "X", "Y"}

\* how file_selector_pick_swf returns: a file picked (true), START (false
\* with the exit request set), B at the root (false), aptMainLoop() false
\* in its loop (false)
PickResults == {"picked", "start", "cancel", "closed"}

Call(kind, ctx) == [kind |-> kind, ctx |-> ctx]

Calls(kind) == SelectSeq(trace, LAMBDA c : c.kind = kind)

\* bridge_tick calls made on the context created last
FramesShown ==
    Len(SelectSeq(trace, LAMBDA c : c.kind = "tick" /\ c.ctx = lv.ctx))

InitMain ==
    /\ file = NoFile
    /\ entry = "main"
    /\ rc = "none"
    /\ fd = [open |-> FALSE, pos |-> 0, closes |-> 0]
    /\ mem = [state |-> "none", frees |-> 0]
    /\ zs = NoStream
    /\ lv = NoLocals
    /\ uc = <<>>
    /\ hdr = ZeroHeader
    /\ out = ZeroSummary
    /\ swf_len = 0
    /\ buf = <<>>
    /\ stack = <<>>
    /\ print_limit = 15
    /\ printed = 0
    /\ trace = <<>>
    /\ rd = {}
    /\ oob = FALSE
    /\ phase = "outer"

\* what no step of main changes
MainFrame == UNCHANGED <<file, entry, fd, mem, zs, uc, hdr, swf_len, buf,
                         stack, out, print_limit, printed, rd, oob>>

\* exit_app: gfxExit(); return 0;
exit_app ==
    /\ phase' = "exited"
    /\ rc' = 0

\* line 258: while (aptMainLoop())
main_outer ==
    /\ entry = "main"
    /\ phase = "outer"
    /\ \E apt \in BOOLEAN :
        IF apt THEN phase' = "select" /\ rc' = rc
        ELSE exit_app
    /\ UNCHANGED <<lv, trace>>
    /\ MainFrame

\* lines 259-282: the selector, then the context for the picked file
main_select ==
    /\ entry = "main"
    /\ phase = "select"
    /\ \E pick \in PickResults :
        IF pick = "picked"
        THEN /\ Len(Calls("create")) < MaxPicks
             /\ lv' = [lv EXCEPT !.ctx = Len(Calls("create")) + 1]
             /\ trace' = Append(trace, Call("create", lv'.ctx))
             /\ phase' = "play"
             /\ rc' = rc
        ELSE /\ IF pick = "start" THEN exit_app
                ELSE phase' = "cancelled" /\ rc' = rc
             /\ UNCHANGED <<lv, trace>>
    /\ MainFrame

\* lines 267-272: wait for START, or for aptMainLoop() to return false
main_cancelled ==
    /\ entry = "main"
    /\ phase = "cancelled"
    /\ \E apt \in BOOLEAN, down \in SUBSET Keys :
        IF apt /\ "START" \notin down
        THEN phase' = phase /\ rc' = rc
        ELSE exit_app
    /\ UNCHANGED <<lv, trace>>
    /\ MainFrame

\* lines 285-339: one test of the playback loop and the iteration it admits
main_play ==
    /\ entry = "main"
    /\ phase = "play"
    /\ \E apt \in BOOLEAN, down \in SUBSET Keys :
        IF ~apt
        THEN /\ phase' = "outer"
             /\ UNCHANGED <<trace, rc>>
        ELSE IF "START" \in down
        THEN /\ trace' = Append(trace, Call("destroy", lv.ctx))
             /\ exit_app
        ELSE IF "B" \in down
        THEN /\ trace' = Append(trace, Call("destroy", lv.ctx))
             /\ phase' = "outer"
             /\ rc' = rc
        ELSE /\ FramesShown < MaxFrames
             /\ trace' = Append(trace, Call("tick", lv.ctx))
             /\ phase' = phase
             /\ rc' = rc
    /\ lv' = lv
    /\ MainFrame

NextMain ==
    \/ main_outer
    \/ main_select
    \/ main_cancelled
    \/ main_play

SpecMain == InitMain /\ [][NextMain]_vars

\* C23: whatever the keys and the results of aptMainLoop(), every context
\* created is destroyed exactly once: never twice, before the next context
\* is created, and by the time main has exited; and no context is ticked
\* after it was destroyed.
CallsOn(kind, c) == { i \in DOMAIN trace : trace[i].kind = kind /\ trace[i].ctx = c }

Created == { trace[i].ctx : i \in { j \in DOMAIN trace : trace[j].kind = "create" } }

C23_ContextLifecycle ==
    entry = "main" =>
        \A c \in Created :
            /\ Cardinality(CallsOn("destroy", c)) <= 1
            /\ \A i \in DOMAIN trace :
                  trace[i].kind = "create" /\ trace[i].ctx # c /\ i > MaxOf(CallsOn("create", c))
                      => \E d \in CallsOn("destroy", c) : d < i
            /\ phase = "exited" => Cardinality(CallsOn("destroy", c)) = 1
            /\ \A t \in CallsOn("tick", c), d \in CallsOn("destroy", c) : t < d

====
